---- MODULE Spec2Model ----
(***************************************************************************)
(* The provisional-application intake pipeline of trogon-monitoring:       *)
(* the upload, classify, save, archive, list and hard-delete handlers over  *)
(* the applications and pod_definitions tables, and the upload wizard that *)
(* drives them.                                                            *)
(*                                                                         *)
(* Encoding of JavaScript / SQL values:                                    *)
(*   - a string of which the code inspects characters is a sequence of     *)
(*     one-character strings; other strings are TLA+ strings;              *)
(*   - a date 'YYYY-MM-DD' is <<y, m, d>>; the empty string, undefined and *)
(*     SQL NULL of a date are <<>> (all falsy in the code);                *)
(*   - an application id is a positive integer; 0 stands for a falsy id    *)
(*     (undefined, null, 0, '');                                           *)
(*   - a value that may be undefined / a non-array is a tagged record      *)
(*     [t |-> "undefined"], [t |-> "string"], [t |-> "array", v |-> seq];  *)
(*   - the NOW() timestamps created_at and updated_at are not modelled;   *)
(*     the list of get-applications, which they order, is a function from  *)
(*     id to entry; archived_at is NULL or "NOW()";                        *)
(*   - a confidence is an integer number of hundredths (0.92 is 92);       *)
(*   - the form field isPreFiling is "true", "false" or "" (not sent);     *)
(*   - a JavaScript object with string keys is the sequence of its         *)
(*     [key, value] entries in insertion order.                            *)
(***************************************************************************)
EXTENDS Integers, Sequences, FiniteSets, Bags, TLC

VARIABLES
    applications,     \* the applications table: id -> row
    pod_definitions,  \* the pod_definitions table: a bag of rows
    blobStore,        \* Vercel Blob: the sequence of objects put so far
    nextAppId,        \* the serial of applications.id
    claudeCalls,      \* number of requests sent to the classification service
    classified,       \* history: application ids a classify request succeeded for
    save,             \* the save-provisional requests in progress, per slot
    lastResp,         \* the response of the last upload/classify/archive request
    wizard,           \* the state of the ProvisionalUpload page (React state)
    savesStarted,     \* number of save requests received so far (bounds the run)
    call,             \* the last call of a helper function: its name, argument, result
    listing,          \* the get-applications request in progress
    removal           \* the admin-delete-application request in progress

vars == <<applications, pod_definitions, blobStore, nextAppId, claudeCalls,
          classified, save, lastResp, wizard, savesStarted, call, listing, removal>>

durable == <<applications, pod_definitions, blobStore, nextAppId>>

----------------------------------------------------------------------------
(* Bounds of the model *)

MaxApps == 2       \* applications rows ever inserted
MaxPods == 4       \* longest approvedPods list of a save request
MaxCalls == 2      \* classification-service calls counted
MaxSaves == 2      \* save requests received in one run
MaxCustomPods == 1 \* PODs the user adds on the review page
MaxWizardSaves == 1 \* save requests the page sends

(* Program constants *)

MinApprovedPods == 3
MinTextLength == 100
MaxFileBytes == 10485760
PreviewLength == 500
MaxTitleLength == 200
MinTitleLength == 5
MonthsToPublication == 18

----------------------------------------------------------------------------
(* Character sequences *)

Rep(c, n) == [i \in 1..n |-> c]

Min(a, b) == IF a < b THEN a ELSE b

LowerLetters == <<"a","b","c","d","e","f","g","h","i","j","k","l","m",
                  "n","o","p","q","r","s","t","u","v","w","x","y","z">>
UpperLetters == <<"A","B","C","D","E","F","G","H","I","J","K","L","M",
                  "N","O","P","Q","R","S","T","U","V","W","X","Y","Z">>

Whitespace == {" ", "\n", "\t", "\r"}

toLowerCaseChar(c) ==
    IF \E i \in 1..26 : UpperLetters[i] = c
    THEN LowerLetters[CHOOSE i \in 1..26 : UpperLetters[i] = c]
    ELSE c

toUpperCaseChar(c) ==
    IF \E i \in 1..26 : LowerLetters[i] = c
    THEN UpperLetters[CHOOSE i \in 1..26 : LowerLetters[i] = c]
    ELSE c

toLowerCase(s) == [i \in 1..Len(s) |-> toLowerCaseChar(s[i])]
toUpperCase(s) == [i \in 1..Len(s) |-> toUpperCaseChar(s[i])]

Max(a, b) == IF a > b THEN a ELSE b

\* String.prototype.substring(a, b) with 0-based a, exclusive b: each
\* argument is clamped to 0..length and the smaller one is the start
substring(s, a, b) ==
    LET a1 == Max(0, Min(a, Len(s)))
        b1 == Max(0, Min(b, Len(s)))
    IN SubSeq(s, Min(a1, b1) + 1, Max(a1, b1))

startsWith(s, p) == Len(p) <= Len(s) /\ SubSeq(s, 1, Len(p)) = p
endsWith(s, p) == Len(p) <= Len(s) /\ SubSeq(s, Len(s) - Len(p) + 1, Len(s)) = p
includes(s, p) == \E i \in 0..(Len(s) - Len(p)) : SubSeq(s, i + 1, i + Len(p)) = p

\* String.prototype.trim
trim(s) ==
    IF \A i \in 1..Len(s) : s[i] \in Whitespace THEN <<>>
    ELSE LET a == CHOOSE i \in 1..Len(s) :
                    s[i] \notin Whitespace /\ \A j \in 1..(i - 1) : s[j] \in Whitespace
             b == CHOOSE i \in 1..Len(s) :
                    s[i] \notin Whitespace /\ \A j \in (i + 1)..Len(s) : s[j] \in Whitespace
         IN SubSeq(s, a, b)

\* String.prototype.split(sep) for a one-character separator
RECURSIVE split(_, _)
split(s, sep) ==
    IF \A i \in 1..Len(s) : s[i] # sep THEN <<s>>
    ELSE LET k == CHOOSE i \in 1..Len(s) : s[i] = sep /\ \A j \in 1..(i - 1) : s[j] # sep
         IN <<SubSeq(s, 1, k - 1)>> \o split(SubSeq(s, k + 1, Len(s)), sep)

\* Array.prototype.join(sep)
RECURSIVE join(_, _)
join(parts, sep) ==
    IF parts = <<>> THEN <<>>
    ELSE IF Len(parts) = 1 THEN parts[1]
    ELSE parts[1] \o sep \o join(Tail(parts), sep)

----------------------------------------------------------------------------
(* SQL NULL of the JSON and string columns *)

Null == [t |-> "null"]
NullStr == "<NULL>"
Undefined == [t |-> "undefined"]
NotAnArray == [t |-> "string"]
Array(s) == [t |-> "array", v |-> s]

----------------------------------------------------------------------------
(* upload-provisional: helpers *)

Str_pdf == <<".", "p", "d", "f">>
Str_txt == <<".", "t", "x", "t">>

GenericNames ==
    { <<"p","r","o","v","i","s","i","o","n","a","l">>,
      <<"p","a","t","e","n","t">>,
      <<"s","p","e","c">>,
      <<"s","p","e","c","i","f","i","c","a","t","i","o","n">>,
      <<"a","p","p","l","i","c","a","t","i","o","n">>,
      <<"d","o","c","u","m","e","n","t">> }

SectionHeaders ==
    { <<"b","a","c","k","g","r","o","u","n","d">>,
      <<"s","u","m","m","a","r","y">>,
      <<"d","e","t","a","i","l","e","d">>,
      <<"a","b","s","t","r","a","c","t">>,
      <<"f","i","e","l","d">>,
      <<"t","e","c","h","n","i","c","a","l">> }

DefaultTitle ==
    <<"U","n","t","i","t","l","e","d"," ","P","r","o","v","i","s","i","o","n","a","l",
      " ","A","p","p","l","i","c","a","t","i","o","n">>

\* filename.replace(/\.(pdf|txt)$/i, '')
stripExtension(filename) ==
    IF \/ endsWith(toLowerCase(filename), Str_pdf)
       \/ endsWith(toLowerCase(filename), Str_txt)
    THEN SubSeq(filename, 1, Len(filename) - 4)
    ELSE filename

\* s.replace(/[-_]/g, ' ')
replaceSeparators(s) ==
    [i \in 1..Len(s) |-> IF s[i] \in {"-", "_"} THEN " " ELSE s[i]]

\* text.split('\n').filter(line => line.trim().length > 0)
RECURSIVE nonBlank(_)
nonBlank(lines) ==
    IF lines = <<>> THEN <<>>
    ELSE (IF Len(trim(Head(lines))) > 0 THEN <<Head(lines)>> ELSE <<>>)
         \o nonBlank(Tail(lines))

\* trimmed.split(/\s+/).length, for a trimmed, non-empty string
wordCount(s) ==
    1 + Cardinality({ i \in 2..Len(s) : s[i] \in Whitespace /\ s[i - 1] \notin Whitespace })

\* the candidate test of the loop body (lines 236-251)
isTitleLine(trimmed) ==
    /\ ~ \E h \in SectionHeaders : startsWith(toLowerCase(trimmed), h)
    /\ Len(trimmed) >= 10
    /\ Len(trimmed) <= 100
    /\ \/ trimmed # toUpperCase(trimmed)
       \/ (wordCount(trimmed) >= 3 /\ wordCount(trimmed) <= 10)

\* word.charAt(0).toUpperCase() + word.slice(1).toLowerCase()
capitalize(word) ==
    IF word = <<>> THEN <<>>
    ELSE <<toUpperCaseChar(word[1])>> \o toLowerCase(Tail(word))

RECURSIVE capitalizeAll(_)
capitalizeAll(words) ==
    IF words = <<>> THEN <<>>
    ELSE <<capitalize(Head(words))>> \o capitalizeAll(Tail(words))

generateTitle(filename, text) ==
    LET fromName == replaceSeparators(stripExtension(filename))
        isGeneric == \E g \in GenericNames : includes(toLowerCase(fromName), g)
        lines == nonBlank(split(text, "\n"))
        first10 == SubSeq(lines, 1, Min(10, Len(lines)))
        hits == { i \in 1..Len(first10) : isTitleLine(trim(first10[i])) }
        chosen ==
            IF (isGeneric \/ Len(fromName) < MinTitleLength) /\ hits # {}
            THEN trim(first10[CHOOSE i \in hits : \A j \in hits : i <= j])
            ELSE fromName
        cased == substring(join(capitalizeAll(split(chosen, " ")), <<" ">>),
                           0, MaxTitleLength)
    IN IF Len(cased) < MinTitleLength THEN DefaultTitle ELSE cased

\* Date arithmetic of calculatePublicationDeadline (UTC): setMonth(getMonth() + 18)
\* lets a day that the target month lacks roll over into the next month.
isLeap(y) == (y % 4 = 0 /\ y % 100 # 0) \/ y % 400 = 0

daysInMonth(y, m) ==
    IF m = 2 THEN (IF isLeap(y) THEN 29 ELSE 28)
    ELSE IF m \in {4, 6, 9, 11} THEN 30 ELSE 31

calculatePublicationDeadline(filingDate) ==
    LET y == filingDate[1]
        m0 == (filingDate[2] - 1) + MonthsToPublication
        d == filingDate[3]
        ty == y + (m0 \div 12)
        tm == (m0 % 12) + 1
    IN IF d <= daysInMonth(ty, tm) THEN <<ty, tm, d>>
       ELSE IF tm = 12 THEN <<ty + 1, 1, d - daysInMonth(ty, tm)>>
       ELSE <<ty, tm + 1, d - daysInMonth(ty, tm)>>

\* extractText(file): [ok, text]; ok = FALSE when it throws
extractText(file) ==
    IF file.mimetype = "text/plain" \/ endsWith(file.filename, Str_txt)
    THEN [ok |-> TRUE, text |-> file.content]
    ELSE IF file.mimetype = "application/pdf" \/ endsWith(file.filename, Str_pdf)
    THEN (IF file.pdfParses THEN [ok |-> TRUE, text |-> file.content]
          ELSE [ok |-> FALSE, text |-> <<>>])
    ELSE [ok |-> FALSE, text |-> <<>>]

----------------------------------------------------------------------------
(* parseFormData: the multipart parser of upload-provisional (lines 31-79) *)

\* the positions (0-based) at which p occurs in s
occurrences(s, p) ==
    {i \in 0..(Len(s) - Len(p)) : SubSeq(s, i + 1, i + Len(p)) = p}

\* String.prototype.indexOf(p): 0-based, -1 if p does not occur
indexOf(s, p) ==
    IF occurrences(s, p) = {} THEN -1
    ELSE CHOOSE i \in occurrences(s, p) : \A j \in occurrences(s, p) : i <= j

\* String.prototype.lastIndexOf(p)
lastIndexOf(s, p) ==
    IF occurrences(s, p) = {} THEN -1
    ELSE CHOOSE i \in occurrences(s, p) : \A j \in occurrences(s, p) : i >= j

\* String.prototype.split(sep) for a separator of one or more characters
RECURSIVE splitString(_, _)
splitString(s, sep) ==
    LET k == indexOf(s, sep)
    IN IF k = -1 THEN <<s>>
       ELSE <<SubSeq(s, 1, k)>> \o splitString(SubSeq(s, k + Len(sep) + 1, Len(s)), sep)

\* the number of characters from position i (1-based) on that are not in stops
runLength(s, i, stops) ==
    LET ends == {j \in i..Len(s) : s[j] \in stops}
    IN IF ends = {} THEN Len(s) - i + 1
       ELSE (CHOOSE j \in ends : \A k \in ends : j <= k) - i

\* String.prototype.match of the regular expression  prefix([^stops]+)  or,
\* with closed,  prefix([^"]+)" : the first match, as [found, group]
match(s, prefix, stops, closed) ==
    LET starts == {i \in occurrences(s, prefix) :
                     LET n == runLength(s, i + Len(prefix) + 1, stops)
                     IN n >= 1 /\ (closed => i + Len(prefix) + n < Len(s))}
    IN IF starts = {} THEN [found |-> FALSE, group |-> <<>>]
       ELSE LET i == CHOOSE i \in starts : \A j \in starts : i <= j
                n == runLength(s, i + Len(prefix) + 1, stops)
            IN [found |-> TRUE,
                group |-> SubSeq(s, i + Len(prefix) + 1, i + Len(prefix) + n)]

Str_boundaryEq == <<"b","o","u","n","d","a","r","y","=">>
Str_undefined == <<"u","n","d","e","f","i","n","e","d">>
Str_dashes == <<"-", "-">>
Str_CRLF == <<"\r", "\n">>
Str_ContentDisposition ==
    <<"C","o","n","t","e","n","t","-","D","i","s","p","o","s","i","t",
      "i","o","n">>
Str_nameEq ==
    <<"n","a","m","e","=","\"">>
Str_filenameEq ==
    <<"f","i","l","e","n","a","m","e","=","\"">>
Str_ContentTypeColon ==
    <<"C","o","n","t","e","n","t","-","T","y","p","e",":"," ">>
Str_octetStream ==
    <<"a","p","p","l","i","c","a","t","i","o","n","/","o","c","t","e",
      "t","-","s","t","r","e","a","m">>

\* a JavaScript object with string keys: its entries in insertion order;
\* assigning to a key it has replaces the value in place
hasKey(obj, k) == \E i \in 1..Len(obj) : obj[i].key = k
assign(obj, k, v) ==
    IF hasKey(obj, k)
    THEN [i \in 1..Len(obj) |-> IF obj[i].key = k THEN [key |-> k, value |-> v]
                                ELSE obj[i]]
    ELSE Append(obj, [key |-> k, value |-> v])

\* lines 45-70: the body of the loop, for one piece of the split body
parsePart(acc, part) ==
    IF ~ includes(part, Str_ContentDisposition) THEN acc
    ELSE LET nameMatch == match(part, Str_nameEq, {"\""}, TRUE)
             filenameMatch == match(part, Str_filenameEq, {"\""}, TRUE)
             typeMatch == match(part, Str_ContentTypeColon, {"\r", "\n"}, FALSE)
             contentStart == indexOf(part, Str_CRLF \o Str_CRLF) + 4
             contentEnd == lastIndexOf(part, Str_CRLF)
             content == substring(part, contentStart, contentEnd)
         IN IF ~ nameMatch.found THEN acc
            ELSE IF filenameMatch.found
            THEN [acc EXCEPT !.files =
                    assign(@, nameMatch.group,
                           [filename |-> filenameMatch.group,
                            buffer |-> content,
                            mimetype |-> IF typeMatch.found THEN typeMatch.group
                                         ELSE Str_octetStream])]
            ELSE [acc EXCEPT !.formData = assign(@, nameMatch.group, content)]

RECURSIVE parseParts(_, _)
parseParts(acc, parts) ==
    IF parts = <<>> THEN acc
    ELSE parseParts(parsePart(acc, Head(parts)), Tail(parts))

\* contentType is req.headers['content-type']: Undefined or [t, v] with the
\* header's characters; body is the request body.  The promise resolves
\* (ok) with formData and files, or rejects with the TypeError of
\* undefined.split
parseFormData(contentType, body) ==
    IF contentType.t = "undefined"
    THEN [ok |-> FALSE, formData |-> <<>>, files |-> <<>>]
    ELSE LET pieces == splitString(contentType.v, Str_boundaryEq)
             boundary == IF Len(pieces) >= 2 THEN pieces[2] ELSE Str_undefined
             parts == splitString(body, Str_dashes \o boundary)
         IN parseParts([ok |-> TRUE, formData |-> <<>>, files |-> <<>>], parts)

----------------------------------------------------------------------------
(* The tables *)

\* the row INSERTed by upload-provisional (lines 168-191); the columns the
\* statement does not name take their defaults
NewApplication(id, title, filingDate, deadline, text, url, fileName) ==
    [ id |-> id,
      title |-> title,
      filing_date |-> filingDate,
      publication_deadline |-> deadline,
      is_provisional |-> TRUE,
      specification_text |-> text,
      file_url |-> url,
      file_name |-> fileName,
      classifier_predictions |-> Null,
      predicted_primary_cpc |-> NullStr,
      technology_area |-> NullStr,
      archived |-> FALSE,
      archived_at |-> NullStr,
      archived_by |-> NullStr ]

\* SELECT ... FROM pod_definitions WHERE application_id = id
PodsOf(id) ==
    LET keep == { r \in BagToSet(pod_definitions) : r.application_id = id }
    IN [r \in keep |-> pod_definitions[r]]

\* DELETE FROM pod_definitions WHERE application_id = id
PodsWithout(id) ==
    LET keep == { r \in BagToSet(pod_definitions) : r.application_id # id }
    IN [r \in keep |-> pod_definitions[r]]

PodRow_zeroBased(applicationId, pod, i) ==
    [ application_id |-> applicationId,
      pod_text |-> pod.text,
      pod_rationale |-> IF pod.rationale = "" THEN "User approved POD" ELSE pod.rationale,
      is_primary |-> pod.isPrimary,
      suggested_by_system |-> pod.suggested,
      user_approved |-> TRUE,
      display_order |-> i ]

\* the row of the INSERT of save-provisional (lines 80-98), i counted from 0
PodRow(applicationId, pod, i) ==
    [ application_id |-> applicationId,
      pod_text |-> pod.text,
      pod_rationale |-> IF pod.rationale = "" THEN "User approved POD" ELSE pod.rationale,
      is_primary |-> pod.isPrimary,
      suggested_by_system |-> pod.suggested,
      user_approved |-> TRUE,
      display_order |-> i + 1 ]

----------------------------------------------------------------------------
(* upload-provisional *)

\* files[fieldName] = {...}: the parts named 'file' overwrite one another,
\* the handler sees the last (lines 58-62, 125)
parsedFile(parts) == parts[Len(parts)]

File_none ==
    [filename |-> <<>>, mimetype |-> "", size |-> 0, content |-> <<>>, pdfParses |-> FALSE]

UploadError(status, error) ==
    [op |-> "upload", status |-> status, id |-> 0, title |-> <<>>,
     extractedText |-> <<>>, error |-> error]

\* lines 119-149: what the handler derives from the request before it
\* touches the blob store or the database
uploadValidation(req) ==
    LET none == [status |-> 0, error |-> "", file |-> File_none,
                 extractedText |-> <<>>, autoTitle |-> <<>>]
    IN IF req.method # "POST"
       THEN [none EXCEPT !.status = 405, !.error = "Method not allowed"]
       ELSE IF req.parts = <<>>
       THEN [none EXCEPT !.status = 400, !.error = "File is required"]
       ELSE IF parsedFile(req.parts).size > MaxFileBytes
       THEN [none EXCEPT !.status = 400, !.error = "File size exceeds 10MB limit"]
       ELSE IF ~ extractText(parsedFile(req.parts)).ok
       THEN [none EXCEPT !.status = 500, !.error = "extractText failed"]
       ELSE IF \/ extractText(parsedFile(req.parts)).text = <<>>
               \/ Len(trim(extractText(parsedFile(req.parts)).text)) < MinTextLength
       THEN [none EXCEPT !.status = 400, !.error = "Extracted text is too short"]
       ELSE [status |-> 200, error |-> "",
             file |-> parsedFile(req.parts),
             extractedText |-> extractText(parsedFile(req.parts)).text,
             autoTitle |-> generateTitle(parsedFile(req.parts).filename,
                                         extractText(parsedFile(req.parts)).text)]

\* the handler, given v = uploadValidation(req)
upload_provisional(req, v) ==
    /\ UNCHANGED <<pod_definitions, claudeCalls, classified, save>>
    /\ IF v.status # 200
       THEN /\ lastResp' = UploadError(v.status, v.error)
            /\ UNCHANGED <<applications, blobStore, nextAppId>>
       ELSE IF req.putFails
       THEN /\ lastResp' = UploadError(500, "put failed")
            /\ UNCHANGED <<applications, blobStore, nextAppId>>
       ELSE LET url == Len(blobStore) + 1
                publicationDeadline ==
                    IF req.isPreFiling = "false" /\ req.filingDate # <<>>
                    THEN calculatePublicationDeadline(req.filingDate)
                    ELSE <<>>
            IN /\ Len(blobStore) < MaxApps
               /\ blobStore' = Append(blobStore,
                                      [pathname |-> v.file.filename,
                                       size |-> v.file.size])
               /\ IF req.insertFails
                  THEN /\ lastResp' = UploadError(500, "insert failed")
                       /\ UNCHANGED <<applications, nextAppId>>
                  ELSE /\ nextAppId <= MaxApps
                       /\ applications' = applications @@
                              (nextAppId :> NewApplication(nextAppId, v.autoTitle,
                                   req.filingDate, publicationDeadline, v.extractedText,
                                   url, v.file.filename))
                       /\ nextAppId' = nextAppId + 1
                       /\ lastResp' =
                              [op |-> "upload", status |-> 200, id |-> nextAppId,
                               title |-> v.autoTitle,
                               extractedText |->
                                   substring(v.extractedText, 0, PreviewLength)
                                       \o <<".", ".", ".">>,
                               error |-> ""]

----------------------------------------------------------------------------
(* archive-application *)

ArchiveResp(status, id) == [op |-> "archive", status |-> status, id |-> id]

archive_application_cascading(req) ==
    /\ UNCHANGED <<blobStore, nextAppId, claudeCalls, classified, save>>
    /\ IF req.method # "POST"
       THEN /\ lastResp' = ArchiveResp(405, req.applicationId)
            /\ UNCHANGED <<applications, pod_definitions>>
       ELSE IF req.applicationId = 0
       THEN /\ lastResp' = ArchiveResp(400, req.applicationId)
            /\ UNCHANGED <<applications, pod_definitions>>
       ELSE IF req.dbFails
       THEN /\ lastResp' = ArchiveResp(500, req.applicationId)
            /\ UNCHANGED <<applications, pod_definitions>>
       ELSE IF req.applicationId \notin DOMAIN applications
       THEN /\ lastResp' = ArchiveResp(404, req.applicationId)
            /\ UNCHANGED <<applications, pod_definitions>>
       ELSE /\ applications' =
                  [applications EXCEPT ![req.applicationId] =
                      [@ EXCEPT !.archived = TRUE,
                                !.archived_at = "NOW()",
                                !.archived_by = IF req.userEmail = "" THEN "unknown"
                                                ELSE req.userEmail]]
            /\ pod_definitions' = PodsWithout(req.applicationId)
            /\ lastResp' = ArchiveResp(200, req.applicationId)

\* part_001, lines 12-58
archive_application(req) ==
    /\ UNCHANGED <<pod_definitions, blobStore, nextAppId, claudeCalls, classified, save>>
    /\ IF req.method # "POST"
       THEN lastResp' = ArchiveResp(405, req.applicationId) /\ UNCHANGED applications
       ELSE IF req.applicationId = 0
       THEN lastResp' = ArchiveResp(400, req.applicationId) /\ UNCHANGED applications
       ELSE IF req.dbFails
       THEN lastResp' = ArchiveResp(500, req.applicationId) /\ UNCHANGED applications
       ELSE IF req.applicationId \notin DOMAIN applications
       THEN lastResp' = ArchiveResp(404, req.applicationId) /\ UNCHANGED applications
       ELSE /\ applications' =
                  [applications EXCEPT ![req.applicationId] =
                      [@ EXCEPT !.archived = TRUE,
                                !.archived_at = "NOW()",
                                !.archived_by = IF req.userEmail = "" THEN "unknown"
                                                ELSE req.userEmail]]
            /\ lastResp' = ArchiveResp(200, req.applicationId)

----------------------------------------------------------------------------
(* classify-provisional *)

\* The service's answer is a sequence of tokens: the fence ``` , the word
\* json, white space, prose, or one JSON value.
Fence == [k |-> "fence"]
JsonWord == [k |-> "json"]
Space == [k |-> "ws"]
Prose == [k |-> "prose"]
JsonObject(v) == [k |-> "object", v |-> v]

trimTokens(t) ==
    IF \A i \in 1..Len(t) : t[i] = Space THEN <<>>
    ELSE LET a == CHOOSE i \in 1..Len(t) :
                    t[i] # Space /\ \A j \in 1..(i - 1) : t[j] = Space
             b == CHOOSE i \in 1..Len(t) :
                    t[i] # Space /\ \A j \in (i + 1)..Len(t) : t[j] = Space
         IN SubSeq(t, a, b)

stripMarkdownCodeBlocks_leading(text) ==
    LET c0 == trimTokens(text)
        c1 == IF startsWith(c0, <<Fence, JsonWord>>) THEN SubSeq(c0, 3, Len(c0))
              ELSE IF startsWith(c0, <<Fence>>) THEN SubSeq(c0, 2, Len(c0))
              ELSE c0
    IN trimTokens(c1)

stripMarkdownCodeBlocks(text) ==
    LET c0 == trimTokens(text)
        c1 == IF startsWith(c0, <<Fence, JsonWord>>) THEN SubSeq(c0, 3, Len(c0))
              ELSE IF startsWith(c0, <<Fence>>) THEN SubSeq(c0, 2, Len(c0))
              ELSE c0
        c2 == IF endsWith(c1, <<Fence>>) THEN SubSeq(c1, 1, Len(c1) - 1) ELSE c1
    IN trimTokens(c2)

\* JSON.parse: [ok, value]
JSONparse(cleaned) ==
    IF Len(trimTokens(cleaned)) = 1 /\ trimTokens(cleaned)[1].k = "object"
    THEN [ok |-> TRUE, value |-> trimTokens(cleaned)[1].v]
    ELSE [ok |-> FALSE, value |-> Null]

\* lines 325-331
validResult(result) ==
    /\ result.pods.t = "array"
    /\ Len(result.pods.v) > 0
    /\ result.primary_cpc_prediction # ""

buildCpcPredictions_uncapped(primaryCpc, secondaryCpcs) ==
    <<[code |-> primaryCpc, confidence |-> 92,
       description |-> "Primary technology classification"]>>
    \o [i \in 1..Len(secondaryCpcs) |->
           [code |-> secondaryCpcs[i], confidence |-> 87 - 6 * (i - 1),
            description |-> "Secondary classification"]]

\* lines 338-357; confidences in hundredths
buildCpcPredictions(primaryCpc, secondaryCpcs) ==
    LET firstFour == SubSeq(secondaryCpcs, 1, Min(4, Len(secondaryCpcs)))
    IN <<[code |-> primaryCpc, confidence |-> 92,
          description |-> "Primary technology classification"]>>
       \o [i \in 1..Len(firstFour) |->
              [code |-> firstFour[i], confidence |-> 87 - 6 * (i - 1),
               description |-> "Secondary classification"]]

Str_UntitledApplication ==
    <<"U","n","t","i","t","l","e","d"," ","A","p","p","l","i","c","a","t","i","o","n">>

\* lines 360-361
generatedTitleOf(result) ==
    IF result.generated_title # <<>> THEN result.generated_title
    ELSE LET prim == { i \in 1..Len(result.pods.v) : result.pods.v[i].is_primary }
             first == CHOOSE i \in prim : \A j \in prim : i <= j
         IN IF prim # {} /\ substring(result.pods.v[first].pod_text, 0, 50) # <<>>
            THEN substring(result.pods.v[first].pod_text, 0, 50)
            ELSE Str_UntitledApplication

ClassifyError(status) ==
    [op |-> "classify", status |-> status, generatedTitle |-> <<>>,
     primaryCpc |-> "", technologyArea |-> "", cpcPredictions |-> <<>>, pods |-> <<>>]

\* lines 334-381: the answer to a valid result
ClassifyOk(result) ==
    [op |-> "classify", status |-> 200,
     generatedTitle |-> generatedTitleOf(result),
     primaryCpc |-> result.primary_cpc_prediction,
     technologyArea |->
         IF result.technology_area = "" THEN "General Technology"
         ELSE result.technology_area,
     cpcPredictions |->
         buildCpcPredictions(result.primary_cpc_prediction,
                             result.secondary_cpc_predictions),
     pods |-> result.pods.v]

\* claude: what the service does if it is called, [kind, text] with kind
\* "nokey" (CLAUDE_API_KEY unset: callClaudeAPI throws before fetch),
\* "error" (response.ok false or fetch rejects), "ok" (text is content[0].text)

\* lines 306-390: the handler's answer once the service has been called
classifyResponse(claude) ==
    LET parsed == JSONparse(stripMarkdownCodeBlocks(claude.text))
        result == parsed.value
    IN IF claude.kind = "error" \/ ~ parsed.ok THEN ClassifyError(500)
       ELSE IF ~ validResult(result) THEN ClassifyError(500)
       ELSE ClassifyOk(result)

classify_provisional_retrying(req, claude) ==
    /\ UNCHANGED <<applications, pod_definitions, blobStore, nextAppId, save>>
    /\ IF req.method # "POST"
       THEN lastResp' = ClassifyError(405) /\ UNCHANGED <<claudeCalls, classified>>
       ELSE IF req.specText = <<>> \/ req.title = <<>>
       THEN lastResp' = ClassifyError(400) /\ UNCHANGED <<claudeCalls, classified>>
       ELSE IF claude.kind = "nokey"
       THEN lastResp' = ClassifyError(500) /\ UNCHANGED <<claudeCalls, classified>>
       ELSE /\ claudeCalls < MaxCalls
            /\ claudeCalls' = claudeCalls + (IF claude.kind = "error" THEN 2 ELSE 1)
            /\ lastResp' = classifyResponse(claude)
            /\ classified' = IF classifyResponse(claude).status = 200
                             THEN classified \cup {req.applicationId}
                             ELSE classified

classify_provisional(req, claude) ==
    /\ UNCHANGED <<applications, pod_definitions, blobStore, nextAppId, save>>
    /\ IF req.method # "POST"
       THEN lastResp' = ClassifyError(405) /\ UNCHANGED <<claudeCalls, classified>>
       ELSE IF req.specText = <<>> \/ req.title = <<>>
       THEN lastResp' = ClassifyError(400) /\ UNCHANGED <<claudeCalls, classified>>
       ELSE IF claude.kind = "nokey"
       THEN lastResp' = ClassifyError(500) /\ UNCHANGED <<claudeCalls, classified>>
       ELSE /\ claudeCalls < MaxCalls
            /\ claudeCalls' = claudeCalls + 1
            /\ lastResp' = classifyResponse(claude)
            /\ classified' = IF classifyResponse(claude).status = 200
                             THEN classified \cup {req.applicationId}
                             ELSE classified

----------------------------------------------------------------------------
(* classify-provisional, the Template 2 variant (src/unnamed/part_003) *)

\* lines 227-253: the related codes of a technology area, [code, description]
relatedCpcs ==
    [area \in {"Software/ML", "Software/Computing", "Mechanical/Electrical",
               "Chemical/Biotech"} |->
        CASE area = "Software/ML" ->
               << <<"G06F 40/169", "Document processing and analysis">>,
                  <<"G06N 3/08", "Neural networks and machine learning">>,
                  <<"G06F 16/33", "Query processing and search">>,
                  <<"G06Q 50/18", "Legal services and intellectual property">>,
                  <<"H04L 51/00", "User-to-user messaging systems">> >>
          [] area = "Software/Computing" ->
               << <<"G06F 40/169", "Document processing and analysis">>,
                  <<"G06F 16/00", "Information retrieval and databases">>,
                  <<"G06F 9/00", "Computing arrangements">>,
                  <<"G06Q 10/00", "Administration and management systems">> >>
          [] area = "Mechanical/Electrical" ->
               << <<"F16", "Engineering elements and units">>,
                  <<"H01", "Basic electric elements">>,
                  <<"H04", "Electric communication technique">>,
                  <<"G01", "Measuring and testing">> >>
          [] area = "Chemical/Biotech" ->
               << <<"A61K", "Preparations for medical, dental, or toilet purposes">>,
                  <<"C07", "Organic chemistry">>,
                  <<"C12", "Biochemistry, microbiology, enzymology">>,
                  <<"A61P", "Therapeutic activity of chemical compounds">> >> ]

\* lines 271-281: the loop over cpcs, from entry i on, with the list built
\* so far and the running confidence (hundredths)
RECURSIVE addRelated(_, _, _, _, _)
addRelated(cpcs, i, primaryCpc, predictions, confidence) ==
    IF i > Len(cpcs) THEN predictions
    ELSE IF cpcs[i][1] # primaryCpc /\ Len(predictions) < 4
    THEN addRelated(cpcs, i + 1, primaryCpc,
                    Append(predictions,
                           [code |-> cpcs[i][1], confidence |-> confidence,
                            description |-> cpcs[i][2]]),
                    confidence - 6)
    ELSE addRelated(cpcs, i + 1, primaryCpc, predictions, confidence)

\* lines 222-285
generateCpcPredictions(primaryCpc, technologyArea) ==
    LET cpcs == IF technologyArea \in DOMAIN relatedCpcs THEN relatedCpcs[technologyArea]
                ELSE relatedCpcs["Software/Computing"]
        found == {i \in 1..Len(cpcs) : cpcs[i][1] = primaryCpc}
        primaryDescription ==
            IF found # {} THEN cpcs[CHOOSE i \in found : \A j \in found : i <= j][2]
            ELSE "Primary technology classification"
    IN addRelated(cpcs, 1, primaryCpc,
                  <<[code |-> primaryCpc, confidence |-> 92,
                     description |-> primaryDescription]>>,
                  87)

\* lines 34-79: the handler's answer once the service has been called
template2Response(claude) ==
    LET parsed == JSONparse(stripMarkdownCodeBlocks(claude.text))
        result == parsed.value
        primaryCpc == IF result.primary_cpc_prediction = "" THEN "G06F 40/169"
                      ELSE result.primary_cpc_prediction
        technologyArea == IF result.technology_area = "" THEN "Software/Computing"
                          ELSE result.technology_area
    IN IF claude.kind = "error" \/ ~ parsed.ok THEN ClassifyError(500)
       ELSE IF ~ (result.pods.t = "array" /\ Len(result.pods.v) > 0)
       THEN ClassifyError(500)
       ELSE [op |-> "classify", status |-> 200,
             primaryCpc |-> primaryCpc,
             technologyArea |-> technologyArea,
             cpcPredictions |-> generateCpcPredictions(primaryCpc, technologyArea),
             pods |-> result.pods.v]

\* lines 11-90
classify_template2(req, claude) ==
    /\ UNCHANGED <<applications, pod_definitions, blobStore, nextAppId, save>>
    /\ IF req.method # "POST"
       THEN lastResp' = ClassifyError(405) /\ UNCHANGED <<claudeCalls, classified>>
       ELSE IF req.specText = <<>> \/ req.title = <<>>
       THEN lastResp' = ClassifyError(400) /\ UNCHANGED <<claudeCalls, classified>>
       ELSE IF claude.kind = "nokey"
       THEN lastResp' = ClassifyError(500) /\ UNCHANGED <<claudeCalls, classified>>
       ELSE /\ claudeCalls < MaxCalls
            /\ claudeCalls' = claudeCalls + 1
            /\ lastResp' = template2Response(claude)
            /\ classified' = IF template2Response(claude).status = 200
                             THEN classified \cup {req.applicationId}
                             ELSE classified

----------------------------------------------------------------------------
(* save-provisional: one step per awaited statement *)

SaveSlots == {"s1", "s2"}

NoBody ==
    [method |-> "none", applicationId |-> 0, title |-> <<>>, filingDate |-> <<>>,
     isPreFiling |-> FALSE, cpcPredictions |-> Undefined, primaryCpc |-> "",
     technologyArea |-> "", approvedPods |-> Undefined]

IdleSlot ==
    [pc |-> "idle", body |-> NoBody, i |-> 0, status |-> 0,
     applicationFound |-> FALSE, savedPods |-> EmptyBag,
     before |-> EmptyBag, disturbed |-> FALSE]

validApprovedPods_offByOne(approvedPods) ==
    /\ approvedPods.t = "array"
    /\ Len(approvedPods.v) >= MinApprovedPods - 1

\* line 37
validApprovedPods(approvedPods) ==
    /\ approvedPods.t # "undefined"
    /\ approvedPods.t = "array"
    /\ Len(approvedPods.v) >= MinApprovedPods

\* history: a statement of slot s that writes the PODs of an application
\* disturbs every other request in progress on that application
Disturbing(s, id, slots) ==
    [t \in SaveSlots |->
        IF t # s /\ slots[t].pc # "idle" /\ slots[t].body.applicationId = id
        THEN [slots[t] EXCEPT !.disturbed = TRUE]
        ELSE slots[t]]

\* lines 12-51: the request arrives and is validated
SaveStart(s, body) ==
    /\ save[s].pc = "idle"
    /\ UNCHANGED <<applications, pod_definitions, blobStore, nextAppId,
                   claudeCalls, classified, lastResp>>
    /\ LET arrived == [IdleSlot EXCEPT !.body = body,
                                       !.before = PodsOf(body.applicationId)]
       IN IF body.method # "POST"
          THEN save' = [save EXCEPT ![s] = [arrived EXCEPT !.pc = "done", !.status = 405]]
          ELSE IF body.applicationId = 0
          THEN save' = [save EXCEPT ![s] = [arrived EXCEPT !.pc = "done", !.status = 400]]
          ELSE IF ~ validApprovedPods(body.approvedPods)
          THEN save' = [save EXCEPT ![s] = [arrived EXCEPT !.pc = "done", !.status = 400]]
          ELSE IF body.cpcPredictions.t # "array"
          THEN \* cpcPredictions.length of line 50 throws
               save' = [save EXCEPT ![s] = [arrived EXCEPT !.pc = "done", !.status = 500]]
          ELSE save' = [save EXCEPT ![s] = [arrived EXCEPT !.pc = "update"]]

SaveUpdate_withFilingDate(s) ==
    /\ save[s].pc = "update"
    /\ UNCHANGED <<pod_definitions, blobStore, nextAppId, claudeCalls, classified, lastResp>>
    /\ LET b == save[s].body
       IN applications' =
              [id \in DOMAIN applications |->
                  IF id = b.applicationId
                  THEN [applications[id] EXCEPT
                           !.title = b.title,
                           !.filing_date = b.filingDate,
                           !.classifier_predictions =
                               [t |-> "json", v |-> b.cpcPredictions.v],
                           !.predicted_primary_cpc = b.primaryCpc,
                           !.technology_area = b.technologyArea]
                  ELSE applications[id]]
    /\ save' = [save EXCEPT ![s].pc = "delete"]

\* lines 54-63: UPDATE applications
SaveUpdate(s) ==
    /\ save[s].pc = "update"
    /\ UNCHANGED <<pod_definitions, blobStore, nextAppId, claudeCalls, classified, lastResp>>
    /\ LET b == save[s].body
       IN applications' =
              [id \in DOMAIN applications |->
                  IF id = b.applicationId
                  THEN [applications[id] EXCEPT
                           !.title = b.title,
                           !.classifier_predictions =
                               [t |-> "json", v |-> b.cpcPredictions.v],
                           !.predicted_primary_cpc = b.primaryCpc,
                           !.technology_area = b.technologyArea]
                  ELSE applications[id]]
    /\ save' = [save EXCEPT ![s].pc = "delete"]

SaveDelete_skipped(s) ==
    /\ save[s].pc = "delete"
    /\ UNCHANGED <<applications, blobStore, nextAppId, claudeCalls, classified, lastResp>>
    /\ pod_definitions' = pod_definitions
    /\ save' = Disturbing(s, save[s].body.applicationId,
                          [save EXCEPT ![s].pc = "insert", ![s].i = 0])

\* lines 69-72: DELETE FROM pod_definitions
SaveDelete(s) ==
    /\ save[s].pc = "delete"
    /\ UNCHANGED <<applications, blobStore, nextAppId, claudeCalls, classified, lastResp>>
    /\ pod_definitions' = PodsWithout(save[s].body.applicationId)
    /\ save' = Disturbing(s, save[s].body.applicationId,
                          [save EXCEPT ![s].pc = "insert", ![s].i = 0])

SaveInsert_once(s) ==
    /\ save[s].pc = "insert"
    /\ UNCHANGED <<applications, blobStore, nextAppId, claudeCalls, classified, lastResp>>
    /\ LET b == save[s].body
           i == save[s].i
           row == PodRow(b.applicationId, b.approvedPods.v[i + 1], i)
       IN IF b.applicationId \notin DOMAIN applications
          THEN /\ UNCHANGED pod_definitions
               /\ save' = [save EXCEPT ![s].pc = "done", ![s].status = 500]
          ELSE /\ pod_definitions' = pod_definitions (+) SetToBag({row})
               /\ save' = Disturbing(s, b.applicationId,
                              [save EXCEPT ![s].i = i + 1, ![s].pc = "verifyApp"])

\* lines 77-99: one INSERT of the loop
SaveInsert(s) ==
    /\ save[s].pc = "insert"
    /\ UNCHANGED <<applications, blobStore, nextAppId, claudeCalls, classified, lastResp>>
    /\ LET b == save[s].body
           i == save[s].i
           row == PodRow(b.applicationId, b.approvedPods.v[i + 1], i)
       IN IF b.applicationId \notin DOMAIN applications
          THEN \* pod_definitions.application_id is a foreign key (part_002,
               \* line 49): the
               \* INSERT rejects and the catch block answers 500
               /\ UNCHANGED pod_definitions
               /\ save' = [save EXCEPT ![s].pc = "done", ![s].status = 500]
          ELSE /\ pod_definitions' = pod_definitions (+) SetToBag({row})
               /\ save' = Disturbing(s, b.applicationId,
                              [save EXCEPT ![s].i = i + 1,
                                           ![s].pc = IF i + 1 < Len(b.approvedPods.v)
                                                     THEN "insert" ELSE "verifyApp"])

\* lines 104-115: SELECT ... FROM applications
SaveVerifyApp(s) ==
    /\ save[s].pc = "verifyApp"
    /\ UNCHANGED <<durable, claudeCalls, classified, lastResp>>
    /\ save' = [save EXCEPT ![s].pc = "verifyPods",
                            ![s].applicationFound =
                                save[s].body.applicationId \in DOMAIN applications]

\* lines 117-150: SELECT ... FROM pod_definitions, then the 200 response
SaveVerifyPods(s) ==
    /\ save[s].pc = "verifyPods"
    /\ UNCHANGED <<durable, claudeCalls, classified, lastResp>>
    /\ save' = [save EXCEPT ![s].pc = "done", ![s].status = 200,
                            ![s].savedPods = PodsOf(save[s].body.applicationId)]

\* lines 152-160: an awaited statement rejects (connection lost, constraint
\* violated); the catch block answers 500
SaveThrow(s) ==
    /\ save[s].pc \in {"update", "delete", "insert", "verifyApp", "verifyPods"}
    /\ UNCHANGED <<durable, claudeCalls, classified, lastResp>>
    /\ save' = [save EXCEPT ![s].pc = "done", ![s].status = 500]

\* the response has been delivered
SaveReturn(s) ==
    /\ save[s].pc = "done"
    /\ UNCHANGED <<durable, claudeCalls, classified, lastResp>>
    /\ save' = [save EXCEPT ![s] = IdleSlot]

----------------------------------------------------------------------------
(* Requests drawn by the model *)

Name_my_invention ==
    <<"m","y","_","i","n","v","e","n","t","i","o","n",".","t","x","t">>
Name_spec == <<"s","p","e","c",".","p","d","f">>
Name_drawing == <<"f","i","g","1",".","p","n","g">>

Line_title == <<"W","i","d","g","e","t"," ","c","o","u","p","l","e","r">>

TextOfLength(n) == Rep("x", n)
TextGood == Line_title \o <<"\n">> \o TextOfLength(MinTextLength)
TextPadded == Rep(" ", 60) \o TextOfLength(60)

FileOf(filename, mimetype, content, pdfParses) ==
    [filename |-> filename, mimetype |-> mimetype, size |-> Len(content),
     content |-> content, pdfParses |-> pdfParses]

File_txt == FileOf(Name_my_invention, "text/plain", TextGood, TRUE)
File_pdf == FileOf(Name_spec, "application/pdf", TextGood, TRUE)
File_scan == FileOf(Name_spec, "application/pdf", <<>>, TRUE)
File_corrupt == FileOf(Name_spec, "application/pdf", <<>>, FALSE)
File_png == FileOf(Name_drawing, "image/png", <<>>, TRUE)
File_huge == [File_pdf EXCEPT !.size = MaxFileBytes + 1]
File_short == FileOf(Name_my_invention, "text/plain", TextOfLength(MinTextLength - 1), TRUE)
File_exact == FileOf(Name_my_invention, "text/plain", TextOfLength(MinTextLength), TRUE)
File_padded == FileOf(Name_my_invention, "text/plain", TextPadded, TRUE)

\* parts: the files of the body, in body order; isPreFiling: the form field,
\* "" if the body has none
UploadRequest(method, parts, filingDate, isPreFiling, putFails, insertFails) ==
    [method |-> method, parts |-> parts, filingDate |-> filingDate,
     isPreFiling |-> isPreFiling, putFails |-> putFails, insertFails |-> insertFails]

Date_filed == <<2025, 1, 15>>

\* every upload request of the model, and what the handler derives from each
UploadRequests ==
    << UploadRequest("POST", <<File_txt>>, <<>>, "true", FALSE, FALSE),
       UploadRequest("POST", <<File_pdf>>, Date_filed, "false", FALSE, FALSE),
       UploadRequest("POST", <<>>, <<>>, "true", FALSE, FALSE),
       UploadRequest("POST", <<File_short>>, <<>>, "true", FALSE, FALSE),
       UploadRequest("POST", <<File_padded>>, <<>>, "true", FALSE, FALSE),
       UploadRequest("POST", <<File_exact>>, <<>>, "true", FALSE, FALSE),
       UploadRequest("POST", <<File_scan>>, <<>>, "true", FALSE, FALSE),
       UploadRequest("POST", <<File_corrupt>>, <<>>, "true", FALSE, FALSE),
       UploadRequest("POST", <<File_png>>, <<>>, "true", FALSE, FALSE),
       UploadRequest("POST", <<File_huge>>, <<>>, "true", FALSE, FALSE),
       UploadRequest("POST", <<File_txt>>, <<>>, "true", TRUE, FALSE),
       UploadRequest("POST", <<File_txt>>, <<>>, "true", FALSE, TRUE),
       UploadRequest("GET", <<File_txt>>, <<>>, "true", FALSE, FALSE),
       UploadRequest("POST", <<File_txt, File_short>>, <<>>, "true", FALSE, FALSE),
       UploadRequest("POST", <<File_txt, File_png>>, <<>>, "true", FALSE, FALSE),
       UploadRequest("POST", <<File_png, File_txt>>, <<>>, "true", FALSE, FALSE),
       UploadRequest("POST", <<File_txt, File_corrupt>>, <<>>, "true", FALSE, FALSE),
       UploadRequest("POST", <<File_txt, File_scan>>, <<>>, "true", FALSE, FALSE),
       UploadRequest("POST", <<File_txt>>, Date_filed, "true", FALSE, FALSE),
       UploadRequest("POST", <<File_txt>>, Date_filed, "", FALSE, FALSE),
       UploadRequest("POST", <<File_txt>>, <<>>, "false", FALSE, FALSE),
       UploadRequest("POST", <<File_txt>>, <<>>, "", FALSE, FALSE) >>

Validated == [k \in DOMAIN UploadRequests |-> uploadValidation(UploadRequests[k])]

\* the uploads of the commit protocol
CoreUploads == {1}

Digits == <<"1", "2", "3", "4", "5", "6", "7", "8", "9">>
PodText(t) == <<"P", Digits[t]>>

\* POD t as the page sends it
Pod(t) ==
    [id |-> t, text |-> PodText(t),
     rationale |-> IF t % 2 = 0 THEN "" ELSE "Novel mechanism",
     isPrimary |-> (t % 3 = 1),
     suggested |-> (t % 2 = 1)]

Ascending(n) == [i \in 1..n |-> Pod(i)]
Descending(n) == [i \in 1..n |-> Pod(MaxPods + 1 - i)]

\* what a request may carry as approvedPods: nothing, a string, a list one
\* short of the minimum, and lists of every accepted length
ApprovedPodsValues ==
    { Undefined, NotAnArray, Array(Ascending(MinApprovedPods - 1)),
      Array(Ascending(MinApprovedPods)), Array(Descending(MaxPods)) }

Title_A == <<"C","o","u","p","l","e","r"," ","A">>
Title_B == <<"C","o","u","p","l","e","r"," ","B">>

CpcPrediction(code, confidence, description) ==
    [code |-> code, confidence |-> confidence, description |-> description]

SaveBody(method, id, approvedPods, withCpc, variant) ==
    [method |-> method, applicationId |-> id,
     title |-> IF variant = "A" THEN Title_A ELSE Title_B,
     filingDate |-> <<>>, isPreFiling |-> TRUE,
     cpcPredictions |->
        IF withCpc
        THEN Array(<<CpcPrediction(IF variant = "A" THEN "G06F 40/169" ELSE "H04L 51/00",
                                   92, "Primary technology classification")>>)
        ELSE Undefined,
     primaryCpc |-> IF variant = "A" THEN "G06F 40/169" ELSE "H04L 51/00",
     technologyArea |-> IF variant = "A" THEN "Software/ML" ELSE "Mechanical/Electrical",
     approvedPods |-> approvedPods]

\* the classification fields follow the order of the list, to keep the
\* requests few: ascending lists carry variant A, descending ones variant B
VariantOf(approvedPods) ==
    IF approvedPods.t = "array" /\ approvedPods.v # <<>>
       /\ approvedPods.v[1].id # 1
    THEN "B" ELSE "A"

CoreSaveBodies ==
    { SaveBody("POST", id, ap, TRUE, VariantOf(ap)) :
          id \in 1..MaxApps, ap \in ApprovedPodsValues }
    \cup { SaveBody("POST", 0, Array(Ascending(MinApprovedPods)), TRUE, "A") }

ClassifyRequest(method, specText, title, id) ==
    [method |-> method, specText |-> specText, title |-> title, applicationId |-> id]

ClaudePod(t) ==
    [pod_text |-> PodText(t), rationale |-> "Novel mechanism", is_primary |-> (t = 1)]

ClaudeResult(pods, primary, secondary, title) ==
    [pods |-> pods, primary_cpc_prediction |-> primary,
     technology_area |-> "Software/ML",
     secondary_cpc_predictions |-> secondary, generated_title |-> title]

Result_good ==
    ClaudeResult(Array([t \in 1..MaxPods |-> ClaudePod(t)]), "G06F 40/169",
                 <<"G06N 3/08", "G06Q 50/18">>, Title_A)
Result_noPods == ClaudeResult(Array(<<>>), "G06F 40/169", <<>>, Title_A)
Result_noPrimary ==
    ClaudeResult(Array([t \in 1..MaxPods |-> ClaudePod(t)]), "", <<>>, Title_A)

Claude(kind, text) == [kind |-> kind, text |-> text]

CoreClaudeOutcomes ==
    { Claude("ok", <<Fence, JsonWord, Space, JsonObject(Result_good), Space, Fence>>),
      Claude("ok", <<Prose>>),
      Claude("error", <<>>) }

CoreClassifyRequests ==
    { ClassifyRequest("POST", TextGood, Title_A, id) : id \in 1..MaxApps }
    \cup { ClassifyRequest("POST", <<>>, Title_A, 1) }

ArchiveRequest(method, id, userEmail, dbFails) ==
    [method |-> method, applicationId |-> id, userEmail |-> userEmail, dbFails |-> dbFails]

ArchiveRequests ==
    { ArchiveRequest("POST", id, IF id = 1 THEN "brad@trogonpatent.ai" ELSE "", FALSE) :
          id \in 0..MaxApps }

----------------------------------------------------------------------------
(* The initial state and the requests any client may send *)

\* useState, lines 13-31; null is 0 for the ids and "" for the error;
\* pending is the timer or fetch the page is waiting for; created and stored
\* are history: the applications and files this pass through the wizard
\* has added to the datastore
\* no helper function has been called
NoCall == [fn |-> "none"]

\* no get-applications request has been received
NoListing ==
    [pc |-> "idle", status |-> 0, applications |-> <<>>, podCount |-> <<>>,
     primaryPodCount |-> <<>>, counted |-> <<>>]

\* no admin-delete-application request has been received
NoRemoval == [pc |-> "idle", applicationId |-> 0, status |-> 0]

WizardInit ==
    [step |-> "upload", files |-> <<>>, isProcessing |-> FALSE, error |-> "",
     title |-> <<>>, specText |-> <<>>, cpcPredictions |-> <<>>, primaryCpc |-> "",
     technologyArea |-> "", suggestedPods |-> <<>>, approvedPods |-> <<>>,
     primaryPodId |-> 0, applicationId |-> 0, filingDate |-> <<>>,
     isPreFiling |-> TRUE, pending |-> "none", created |-> {}, stored |-> 0]

Init ==
    /\ applications = <<>>
    /\ pod_definitions = EmptyBag
    /\ blobStore = <<>>
    /\ nextAppId = 1
    /\ claudeCalls = 0
    /\ classified = {}
    /\ save = [s \in SaveSlots |-> IdleSlot]
    /\ lastResp = [op |-> "none", status |-> 0]
    /\ wizard = WizardInit
    /\ savesStarted = 0
    /\ call = NoCall
    /\ listing = NoListing
    /\ removal = NoRemoval

\* a request takes the first free slot
FreeSlot(s) == save[s].pc = "idle" /\ (s = "s2" => save["s1"].pc # "idle")

UploadFrom(ks) ==
    \E k \in ks :
        upload_provisional(UploadRequests[k], Validated[k])
            /\ UNCHANGED <<wizard, savesStarted, call, listing, removal>>

ClassifyFrom(requests, outcomes) ==
    \E req \in requests, claude \in outcomes :
        classify_provisional(req, claude) /\ UNCHANGED <<wizard, savesStarted, call, listing, removal>>

ArchiveFrom(requests) ==
    \E req \in requests :
        archive_application(req) /\ UNCHANGED <<wizard, savesStarted, call, listing, removal>>

SaveFrom(bodies) ==
    \E s \in SaveSlots, body \in bodies :
        /\ FreeSlot(s)
        /\ savesStarted < MaxSaves
        /\ savesStarted' = savesStarted + 1
        /\ SaveStart(s, body)
        /\ UNCHANGED <<wizard, call, listing, removal>>

Update == \E s \in SaveSlots : SaveUpdate(s) /\ UNCHANGED <<wizard, savesStarted, call, listing, removal>>
Delete == \E s \in SaveSlots : SaveDelete(s) /\ UNCHANGED <<wizard, savesStarted, call, listing, removal>>
Insert == \E s \in SaveSlots : SaveInsert(s) /\ UNCHANGED <<wizard, savesStarted, call, listing, removal>>
VerifyApp == \E s \in SaveSlots : SaveVerifyApp(s) /\ UNCHANGED <<wizard, savesStarted, call, listing, removal>>
VerifyPods == \E s \in SaveSlots : SaveVerifyPods(s) /\ UNCHANGED <<wizard, savesStarted, call, listing, removal>>
Throw == \E s \in SaveSlots : SaveThrow(s) /\ UNCHANGED <<wizard, savesStarted, call, listing, removal>>
Return == \E s \in SaveSlots : SaveReturn(s) /\ UNCHANGED <<wizard, savesStarted, call, listing, removal>>

----------------------------------------------------------------------------
(* The commit protocol: uploads, and save requests two at a time *)

Upload == UploadFrom(CoreUploads)
Save == SaveFrom(CoreSaveBodies)

Next ==
    \/ Upload
    \/ Save
    \/ Update
    \/ Delete
    \/ Insert
    \/ VerifyApp
    \/ VerifyPods
    \/ Throw
    \/ Return

Spec == Init /\ [][Next]_vars

----------------------------------------------------------------------------
(* Properties of the commit protocol *)

\* the request in slot s was answered 200 and no other request has written
\* the PODs of its application since it arrived
Undisturbed(s) == save[s].pc = "done" /\ save[s].status = 200 /\ ~ save[s].disturbed

\* the rows a request asks for, written out column by column
SubmittedRows(body) ==
    SetToBag({ [ application_id |-> body.applicationId,
                 pod_text |-> body.approvedPods.v[i].text,
                 pod_rationale |-> IF body.approvedPods.v[i].rationale = ""
                                   THEN "User approved POD"
                                   ELSE body.approvedPods.v[i].rationale,
                 is_primary |-> body.approvedPods.v[i].isPrimary,
                 suggested_by_system |-> body.approvedPods.v[i].suggested,
                 user_approved |-> TRUE,
                 display_order |-> i ] : i \in 1..Len(body.approvedPods.v) })

TooFewPods(approvedPods) ==
    approvedPods.t # "array" \/ Len(approvedPods.v) < MinApprovedPods

\* C1: a save request whose approvedPods is missing, is not a list, or has
\* fewer than three elements is answered 400 at once, and neither its arrival
\* nor the delivery of its answer changes any table or the blob store
C1_RejectedSaveChangesNothing ==
    [][\A s \in SaveSlots :
          /\ (save'[s].pc # "idle" /\ TooFewPods(save'[s].body.approvedPods))
                => /\ save'[s].pc = "done"
                   /\ save'[s].status = 400
                   /\ (save[s].pc = "idle" => durable' = durable)
          /\ (save[s].pc # "idle" /\ TooFewPods(save[s].body.approvedPods)
                /\ save'[s].pc # save[s].pc)
                => /\ save'[s].pc = "idle"
                   /\ durable' = durable]_vars

\* a two-element list was refused for an application that has PODs, and the
\* PODs are still there
C1_Witness ==
    \E s \in SaveSlots :
        /\ save[s].pc = "done" /\ save[s].status = 400
        /\ save[s].body.applicationId \in DOMAIN applications
        /\ save[s].body.approvedPods.t = "array"
        /\ Len(save[s].body.approvedPods.v) = MinApprovedPods - 1
        /\ PodsOf(save[s].body.applicationId) # EmptyBag
        /\ PodsOf(save[s].body.applicationId) = save[s].before

\* C2: after an undisturbed save of N >= 3 PODs answered 200, the application
\* has exactly N rows, and the row with displayOrder i carries the text of
\* the i-th submitted POD, for i = 1..N
C2_RowsInSubmittedOrder ==
    \A s \in SaveSlots :
        Undisturbed(s) =>
            LET v == save[s].body.approvedPods.v
                rows == PodsOf(save[s].body.applicationId)
            IN /\ BagCardinality(rows) = Len(v)
               /\ \A i \in 1..Len(v) :
                     \E r \in BagToSet(rows) :
                         r.display_order = i /\ r.pod_text = v[i].text

\* a list in descending order of every length up to the longest was saved
C2_Witness ==
    \E s \in SaveSlots :
        /\ Undisturbed(s)
        /\ Len(save[s].body.approvedPods.v) = MaxPods
        /\ save[s].body.approvedPods.v[1].id = MaxPods
        /\ save[s].body.applicationId \in DOMAIN applications

\* C3: an undisturbed save answered 200 leaves exactly the submitted rows,
\* whatever the application had before; submitting what is already stored
\* leaves the rows as they were
C3_SaveReplaces ==
    \A s \in SaveSlots :
        Undisturbed(s) =>
            /\ PodsOf(save[s].body.applicationId) = SubmittedRows(save[s].body)
            /\ save[s].before = SubmittedRows(save[s].body)
                  => PodsOf(save[s].body.applicationId) = save[s].before

\* a save replaced a different, longer set of PODs
C3_Witness ==
    \E s \in SaveSlots :
        /\ Undisturbed(s)
        /\ BagCardinality(save[s].before) > Len(save[s].body.approvedPods.v)
        /\ PodsOf(save[s].body.applicationId) # save[s].before

\* C4: when two requests for the same application have both been answered
\* 200, every row of the application comes from one of the two, and the rows
\* of at least one of them are all present; nothing more is guaranteed
C4_InterleavedSavesMix ==
    \A s, t \in SaveSlots :
        (/\ s # t
         /\ save[s].pc = "done" /\ save[s].status = 200
         /\ save[t].pc = "done" /\ save[t].status = 200
         /\ save[s].body.applicationId = save[t].body.applicationId)
        => LET rows == PodsOf(save[s].body.applicationId)
               A == SubmittedRows(save[s].body)
               B == SubmittedRows(save[t].body)
           IN /\ rows \sqsubseteq (A (+) B)
              /\ (A \sqsubseteq rows \/ B \sqsubseteq rows)

\* both requests were answered 200; the rows are neither request's set, two
\* rows share a displayOrder, and one request's verification read returned
\* fewer rows than it had inserted
C4_Witness ==
    \E s, t \in SaveSlots :
        /\ s # t
        /\ save[s].pc = "done" /\ save[s].status = 200
        /\ save[t].pc = "done" /\ save[t].status = 200
        /\ save[s].body.applicationId = save[t].body.applicationId
        /\ LET rows == PodsOf(save[s].body.applicationId)
           IN /\ rows # SubmittedRows(save[s].body)
              /\ rows # SubmittedRows(save[t].body)
              /\ \E r, q \in BagToSet(rows) :
                     r # q /\ r.display_order = q.display_order
              /\ BagCardinality(save[s].savedPods) < Len(save[s].body.approvedPods.v)

----------------------------------------------------------------------------
(* Archiving: uploads, saves for the first application, archive requests *)

ArchiveSaveBodies ==
    { SaveBody("POST", 1, Array(Ascending(MinApprovedPods)), TRUE, "A") }

SaveFirst == SaveFrom(ArchiveSaveBodies)
Archive == ArchiveFrom(ArchiveRequests)

ArchiveNext ==
    \/ Upload
    \/ SaveFirst
    \/ Update
    \/ Delete
    \/ Insert
    \/ VerifyApp
    \/ VerifyPods
    \/ Throw
    \/ Return
    \/ Archive

ArchiveSpec == Init /\ [][ArchiveNext]_vars

\* the columns of an application row that the archive statement does not set
Unarchived(row) ==
    [row EXCEPT !.archived = FALSE, !.archived_at = NullStr, !.archived_by = NullStr]

\* C10: an archive request for an existing application is answered 200 and
\* sets archived on that row (with the audit columns archived_at and
\* archived_by of the same statement); every other column of the row, every
\* other application, every POD row and the blob store are as before.  An
\* archive request for an id that no application has is answered 404 and
\* changes nothing
C10_ArchiveChangesOnlyArchived ==
    [][\A req \in ArchiveRequests :
          (archive_application(req) /\ req.method = "POST" /\ ~ req.dbFails
             /\ req.applicationId # 0)
          => IF req.applicationId \in DOMAIN applications
             THEN /\ lastResp'.status = 200
                  /\ DOMAIN applications' = DOMAIN applications
                  /\ applications'[req.applicationId].archived = TRUE
                  /\ Unarchived(applications'[req.applicationId])
                         = Unarchived(applications[req.applicationId])
                  /\ \A id \in DOMAIN applications \ {req.applicationId} :
                         applications'[id] = applications[id]
                  /\ pod_definitions' = pod_definitions
                  /\ blobStore' = blobStore
             ELSE /\ lastResp'.status = 404
                  /\ durable' = durable]_vars

\* an application with PODs has been archived, its PODs are still there and
\* another application is not archived
C10_Witness ==
    /\ lastResp.op = "archive" /\ lastResp.status = 200
    /\ lastResp.id \in DOMAIN applications
    /\ applications[lastResp.id].archived
    /\ BagCardinality(PodsOf(lastResp.id)) = MinApprovedPods
    /\ \E id \in DOMAIN applications : ~ applications[id].archived

----------------------------------------------------------------------------
(* Intake: uploads and classification requests with texts of every length *)

IntakeUploads == DOMAIN UploadRequests

MaxSecondaries == 5   \* secondary codes in an answer of the service

SecondaryCodes ==
    <<"G06N 3/08", "G06Q 50/18", "G06F 16/33", "H04L 51/00", "G06F 9/00",
      "G06Q 10/00", "G06F 16/00", "G06F 3/01">>

\* a valid result with n secondary codes
Result_secondaries(n) ==
    ClaudeResult(Array([t \in 1..MaxPods |-> ClaudePod(t)]), "G06F 40/169",
                 SubSeq(SecondaryCodes, 1, Min(n, Len(SecondaryCodes))), Title_A)

IntakeClaudeOutcomes ==
    CoreClaudeOutcomes
    \cup { Claude("nokey", <<>>),
           Claude("ok", <<JsonObject(Result_noPods)>>),
           Claude("ok", <<JsonObject(Result_noPrimary)>>) }
    \cup { Claude("ok", <<JsonObject(Result_secondaries(n))>>) : n \in 0..MaxSecondaries }

IntakeClassifyRequests ==
    { ClassifyRequest("POST", text, Title_A, 1) :
          text \in { <<>>, TextOfLength(1), TextOfLength(MinTextLength - 1),
                     TextPadded, TextOfLength(MinTextLength), TextGood } }
    \cup { ClassifyRequest("POST", TextGood, <<>>, 1),
           ClassifyRequest("GET", TextGood, Title_A, 1) }

UploadAny == UploadFrom(IntakeUploads)
ClassifyAny == ClassifyFrom(IntakeClassifyRequests, IntakeClaudeOutcomes)
ClassifyTemplate2 ==
    \E req \in IntakeClassifyRequests, claude \in IntakeClaudeOutcomes :
        classify_template2(req, claude) /\ UNCHANGED <<wizard, savesStarted, call, listing, removal>>

IntakeNext ==
    \/ UploadAny
    \/ ClassifyAny
    \/ ClassifyTemplate2

IntakeSpec == Init /\ [][IntakeNext]_vars

\* the text a request carries is shorter than the threshold
TooShort(text) == Len(trim(text)) < MinTextLength

\* C8: a POST request whose text is shorter than 100 characters is answered
\* 400 and makes no external call, in upload-provisional (no blob-store
\* write, no INSERT) and in classify-provisional (no call of the service)
C8_ShortTextRejectedBeforeExternalCall ==
    [][/\ \A k \in IntakeUploads :
             (/\ upload_provisional(UploadRequests[k], Validated[k])
              /\ UploadRequests[k].method = "POST"
              /\ UploadRequests[k].parts # <<>>
              /\ parsedFile(UploadRequests[k].parts).size <= MaxFileBytes
              /\ extractText(parsedFile(UploadRequests[k].parts)).ok
              /\ TooShort(extractText(parsedFile(UploadRequests[k].parts)).text))
             => /\ lastResp'.status = 400
                /\ durable' = durable
                /\ claudeCalls' = claudeCalls
       /\ \A req \in IntakeClassifyRequests, claude \in IntakeClaudeOutcomes :
             (/\ classify_provisional(req, claude)
              /\ req.method = "POST"
              /\ TooShort(req.specText))
             => /\ lastResp'.status = 400
                /\ durable' = durable
                /\ claudeCalls' = claudeCalls]_vars

----------------------------------------------------------------------------
(* The lifecycle: any client may upload, classify and save in any order *)

LifecycleClassifyRequests ==
    { ClassifyRequest("POST", TextGood, Title_A, 1) }

LifecycleClaudeOutcomes ==
    { Claude("ok", <<JsonObject(Result_good)>>), Claude("error", <<>>) }

LifecycleSaveBodies ==
    { SaveBody("POST", id, Array(Ascending(MinApprovedPods)), TRUE, "A") :
          id \in 1..MaxApps }

Classify == ClassifyFrom(LifecycleClassifyRequests, LifecycleClaudeOutcomes)
SaveAny == SaveFrom(LifecycleSaveBodies)

LifecycleNext ==
    \/ Upload
    \/ Classify
    \/ SaveAny
    \/ Update
    \/ Delete
    \/ Insert
    \/ VerifyApp
    \/ VerifyPods
    \/ Throw
    \/ Return

LifecycleSpec == Init /\ [][LifecycleNext]_vars

\* C5: every POD row belongs to an application that an upload created and
\* for which a classification request has succeeded
C5_PodsOnlyAfterIntakeAndClassification ==
    \A r \in BagToSet(pod_definitions) :
        /\ r.application_id \in DOMAIN applications
        /\ r.application_id \in classified

----------------------------------------------------------------------------
(* The upload wizard, NewProvisionalPage.jsx.  The user acts on the page only
   while no request of the page is in flight. *)

ValidTypes == {"application/pdf", "text/plain",
    "application/vnd.openxmlformats-officedocument.wordprocessingml.document"}

MaxFiles == 10

RECURSIVE excludingNames(_, _)
\* the elements of fs whose name is not in names
excludingNames(fs, names) ==
    IF fs = <<>> THEN <<>>
    ELSE IF Head(fs).filename \in names THEN excludingNames(Tail(fs), names)
    ELSE <<Head(fs)>> \o excludingNames(Tail(fs), names)

\* lines 34-62
handleFileChange(selectedFiles) ==
    /\ wizard.step = "upload" /\ ~ wizard.isProcessing
    /\ selectedFiles # <<>>
    /\ UNCHANGED <<durable, claudeCalls, classified, save, lastResp, savesStarted, call, listing, removal>>
    /\ IF \E i \in 1..Len(selectedFiles) : selectedFiles[i].mimetype \notin ValidTypes
       THEN wizard' = [wizard EXCEPT !.error = "Invalid file type"]
       ELSE LET existingNames == { wizard.files[i].filename : i \in 1..Len(wizard.files) }
                combined == wizard.files \o excludingNames(selectedFiles, existingNames)
            IN wizard' = [wizard EXCEPT
                             !.files = SubSeq(combined, 1, Min(MaxFiles, Len(combined))),
                             !.error = ""]

\* lines 65-67
removeFile(fileName) ==
    /\ wizard.step = "upload" /\ ~ wizard.isProcessing
    /\ \E i \in 1..Len(wizard.files) : wizard.files[i].filename = fileName
    /\ UNCHANGED <<durable, claudeCalls, classified, save, lastResp, savesStarted, call, listing, removal>>
    /\ wizard' = [wizard EXCEPT !.files = excludingNames(wizard.files, {fileName})]

\* lines 102-155, with the request it awaits; the button is disabled while
\* isProcessing or without files (line 523)
handleUpload(ks) ==
    /\ wizard.step = "upload" /\ ~ wizard.isProcessing /\ wizard.files # <<>>
    /\ UNCHANGED <<savesStarted, call, listing, removal>>
    /\ \E k \in ks :
          /\ UploadRequests[k].method = "POST"
          /\ UploadRequests[k].parts = wizard.files
          /\ UploadRequests[k].filingDate = wizard.filingDate
          /\ UploadRequests[k].isPreFiling = (IF wizard.isPreFiling THEN "true" ELSE "false")
          /\ upload_provisional(UploadRequests[k], Validated[k])
          /\ IF lastResp'.status = 200
             THEN wizard' = [wizard EXCEPT
                     !.isProcessing = TRUE, !.error = "", !.step = "processing",
                     !.specText = lastResp'.extractedText,
                     !.title = lastResp'.title,
                     !.applicationId = lastResp'.id,
                     !.pending = "classification",
                     !.created = @ \cup {lastResp'.id},
                     !.stored = @ + Len(blobStore') - Len(blobStore)]
             ELSE wizard' = [wizard EXCEPT
                     !.isProcessing = FALSE, !.error = lastResp'.error,
                     !.step = "upload",
                     !.stored = @ + Len(blobStore') - Len(blobStore)]

\* lines 197-203
transformedPods(pods) ==
    [i \in 1..Len(pods) |->
        [id |-> i, text |-> pods[i].pod_text, rationale |-> pods[i].rationale,
         isPrimary |-> pods[i].is_primary, suggested |-> TRUE]]

RECURSIVE filterPrimary(_)
\* transformedPods.filter(p => p.isPrimary)
filterPrimary(pods) ==
    IF pods = <<>> THEN <<>>
    ELSE IF Head(pods).isPrimary THEN <<Head(pods)>> \o filterPrimary(Tail(pods))
    ELSE filterPrimary(Tail(pods))

handleClassification_stays(outcomes) ==
    /\ wizard.pending = "classification"
    /\ UNCHANGED <<savesStarted, call, listing, removal>>
    /\ \E claude \in outcomes :
          /\ classify_provisional(
                 ClassifyRequest("POST", wizard.specText, wizard.title,
                                 wizard.applicationId), claude)
          /\ IF lastResp'.status = 200
             THEN LET pods == transformedPods(lastResp'.pods)
                  IN wizard' = [wizard EXCEPT
                        !.cpcPredictions = lastResp'.cpcPredictions,
                        !.primaryCpc = lastResp'.primaryCpc,
                        !.technologyArea = lastResp'.technologyArea,
                        !.suggestedPods = pods,
                        !.approvedPods = filterPrimary(pods),
                        !.primaryPodId = IF filterPrimary(pods) # <<>>
                                         THEN filterPrimary(pods)[1].id ELSE @,
                        !.title = IF lastResp'.generatedTitle # <<>>
                                  THEN lastResp'.generatedTitle ELSE @,
                        !.isProcessing = FALSE, !.step = "review",
                        !.pending = "none"]
             ELSE wizard' = [wizard EXCEPT
                        !.error = "Classification failed",
                        !.isProcessing = FALSE, !.step = "classification",
                        !.pending = "none"]

\* lines 158-224, started by the timer of line 146, with the request it awaits
handleClassification(outcomes) ==
    /\ wizard.pending = "classification"
    /\ UNCHANGED <<savesStarted, call, listing, removal>>
    /\ \E claude \in outcomes :
          /\ classify_provisional(
                 ClassifyRequest("POST", wizard.specText, wizard.title,
                                 wizard.applicationId), claude)
          /\ IF lastResp'.status = 200
             THEN LET pods == transformedPods(lastResp'.pods)
                  IN wizard' = [wizard EXCEPT
                        !.cpcPredictions = lastResp'.cpcPredictions,
                        !.primaryCpc = lastResp'.primaryCpc,
                        !.technologyArea = lastResp'.technologyArea,
                        !.suggestedPods = pods,
                        !.approvedPods = filterPrimary(pods),
                        !.primaryPodId = IF filterPrimary(pods) # <<>>
                                         THEN filterPrimary(pods)[1].id ELSE @,
                        !.title = IF lastResp'.generatedTitle # <<>>
                                  THEN lastResp'.generatedTitle ELSE @,
                        !.isProcessing = FALSE, !.step = "review",
                        !.pending = "none"]
             ELSE wizard' = [wizard EXCEPT
                        !.error = "Classification failed",
                        !.isProcessing = FALSE, !.step = "upload",
                        !.pending = "none"]

RECURSIVE withoutPod(_, _)
\* approvedPods.filter(p => p.id !== podId)
withoutPod(pods, podId) ==
    IF pods = <<>> THEN <<>>
    ELSE IF Head(pods).id = podId THEN withoutPod(Tail(pods), podId)
    ELSE <<Head(pods)>> \o withoutPod(Tail(pods), podId)

isApproved(podId) ==
    \E i \in 1..Len(wizard.approvedPods) : wizard.approvedPods[i].id = podId

\* lines 241-252
togglePodApproval(podId) ==
    /\ wizard.step = "review" /\ ~ wizard.isProcessing
    /\ \E i \in 1..Len(wizard.suggestedPods) : wizard.suggestedPods[i].id = podId
    /\ UNCHANGED <<durable, claudeCalls, classified, save, lastResp, savesStarted, call, listing, removal>>
    /\ LET pod == wizard.suggestedPods[
                      CHOOSE i \in 1..Len(wizard.suggestedPods) :
                          /\ wizard.suggestedPods[i].id = podId
                          /\ \A j \in 1..(i - 1) : wizard.suggestedPods[j].id # podId]
       IN IF isApproved(podId)
          THEN wizard' = [wizard EXCEPT
                  !.approvedPods = withoutPod(@, podId),
                  !.primaryPodId = IF @ = podId THEN 0 ELSE @]
          ELSE wizard' = [wizard EXCEPT !.approvedPods = Append(@, pod)]

\* line 479: the Set Primary button of an approved POD
setPrimaryPodId(podId) ==
    /\ wizard.step = "review" /\ ~ wizard.isProcessing
    /\ isApproved(podId)
    /\ UNCHANGED <<durable, claudeCalls, classified, save, lastResp, savesStarted, call, listing, removal>>
    /\ wizard' = [wizard EXCEPT !.primaryPodId = podId]

\* lines 263-272; Date.now() is the next unused id
addCustomPod ==
    /\ wizard.step = "review" /\ ~ wizard.isProcessing
    /\ Len(wizard.suggestedPods) < MinApprovedPods + MaxCustomPods
    /\ UNCHANGED <<durable, claudeCalls, classified, save, lastResp, savesStarted, call, listing, removal>>
    /\ wizard' = [wizard EXCEPT !.suggestedPods =
           Append(@, [id |-> Len(wizard.suggestedPods) + 1, text |-> <<>>,
                      rationale |-> "User-added POD", isPrimary |-> TRUE,
                      suggested |-> FALSE])]

\* lines 274-297: the request goes out; the button is disabled while
\* isProcessing, with fewer than 3 approved PODs or with no primary (line 677)
handleSave ==
    /\ wizard.step = "review" /\ ~ wizard.isProcessing
    /\ Len(wizard.approvedPods) >= MinApprovedPods
    /\ wizard.primaryPodId # 0
    /\ savesStarted < MaxWizardSaves
    /\ savesStarted' = savesStarted + 1
    /\ SaveStart("s1",
          [method |-> "POST", applicationId |-> wizard.applicationId,
           title |-> wizard.title,
           filingDate |-> IF wizard.isPreFiling THEN <<>> ELSE wizard.filingDate,
           isPreFiling |-> wizard.isPreFiling,
           cpcPredictions |-> Array(wizard.cpcPredictions),
           primaryCpc |-> wizard.primaryCpc,
           technologyArea |-> wizard.technologyArea,
           approvedPods |-> Array(wizard.approvedPods)])
    /\ wizard' = [wizard EXCEPT !.isProcessing = TRUE, !.error = "", !.pending = "save"]
    /\ UNCHANGED <<call, listing, removal>>

\* lines 299-314: the answer of save-provisional arrives
handleSaveResponse ==
    /\ wizard.pending = "save"
    /\ SaveReturn("s1")
    /\ UNCHANGED <<savesStarted, call, listing, removal>>
    /\ IF save["s1"].status = 200
       THEN wizard' = [wizard EXCEPT !.step = "complete", !.isProcessing = FALSE,
                                     !.pending = "none"]
       ELSE wizard' = [wizard EXCEPT !.error = "Save failed", !.isProcessing = FALSE,
                                     !.pending = "none"]

\* lines 665-670: the Start Over button of the review step
startOver ==
    /\ wizard.step = "review" /\ ~ wizard.isProcessing
    /\ UNCHANGED <<durable, claudeCalls, classified, save, lastResp, savesStarted, call, listing, removal>>
    /\ wizard' = [wizard EXCEPT !.step = "upload", !.files = <<>>, !.error = "",
                                !.created = {}, !.stored = 0]

\* lines 712-723: the Upload Another button of the complete step
uploadAnother ==
    /\ wizard.step = "complete"
    /\ UNCHANGED <<durable, claudeCalls, classified, save, lastResp, savesStarted, call, listing, removal>>
    /\ wizard' = [wizard EXCEPT !.step = "upload", !.title = <<>>, !.filingDate = <<>>,
                                !.files = <<>>, !.specText = <<>>,
                                !.suggestedPods = <<>>, !.approvedPods = <<>>,
                                !.applicationId = 0, !.isPreFiling = TRUE,
                                !.created = {}, !.stored = 0]

WizardSelections == { <<File_txt>>, <<File_png>> }
WizardUploads == {1, 11}
WizardResult ==
    ClaudeResult(Array([t \in 1..MinApprovedPods |-> ClaudePod(t)]), "G06F 40/169",
                 <<"G06N 3/08">>, Title_A)
WizardClaudeOutcomes ==
    { Claude("ok", <<Fence, JsonWord, Space, JsonObject(WizardResult), Space, Fence>>),
      Claude("ok", <<Prose>>),
      Claude("ok", <<JsonObject(Result_noPods)>>),
      Claude("ok", <<JsonObject(Result_noPrimary)>>),
      Claude("error", <<>>) }

SelectFiles == \E fs \in WizardSelections : handleFileChange(fs)
RemoveFile == \E fs \in WizardSelections : removeFile(fs[1].filename)
ClickUpload == handleUpload(WizardUploads)
ClassifyTimer == handleClassification(WizardClaudeOutcomes)
TogglePod == \E podId \in 1..(MinApprovedPods + MaxCustomPods) : togglePodApproval(podId)
SetPrimary == \E podId \in 1..(MinApprovedPods + MaxCustomPods) : setPrimaryPodId(podId)
AddCustomPod == addCustomPod
ClickSave == handleSave
SaveAnswered == handleSaveResponse
StartOver == startOver
UploadAnother == uploadAnother

WizardNext ==
    \/ SelectFiles
    \/ RemoveFile
    \/ ClickUpload
    \/ ClassifyTimer
    \/ TogglePod
    \/ SetPrimary
    \/ AddCustomPod
    \/ ClickSave
    \/ Update
    \/ Delete
    \/ Insert
    \/ VerifyApp
    \/ VerifyPods
    \/ Throw
    \/ SaveAnswered
    \/ StartOver
    \/ UploadAnother

WizardSpec == Init /\ [][WizardNext]_vars

\* C6: when the classification request of the page fails (service error,
\* unparseable answer, no PODs, no primary classification), the page goes
\* back to the upload step and the tables and the blob store are as they
\* were before the request
C6_ClassificationFailureKeepsState ==
    [][(/\ wizard.pending = "classification"
        /\ wizard'.pending = "none"
        /\ lastResp'.status # 200)
       => /\ lastResp'.op = "classify"
          /\ wizard'.step = "upload"
          /\ wizard'.applicationId = wizard.applicationId
          /\ durable' = durable]_vars

\* a classification has failed for an uploaded application whose file is
\* stored, while an earlier application has its PODs
C6_Witness ==
    /\ wizard.step = "upload"
    /\ wizard.error = "Classification failed"
    /\ lastResp.op = "classify" /\ lastResp.status = 500
    /\ wizard.applicationId \in DOMAIN applications
    /\ applications[wizard.applicationId].file_url \in 1..Len(blobStore)
    /\ pod_definitions # EmptyBag

\* C7: one pass through the wizard, classification failures included,
\* creates at most one application and stores the file at most once
C7_RetryCreatesNoSecondApplication ==
    /\ Cardinality(wizard.created) <= 1
    /\ wizard.stored <= 1

\* C9: when the save of the page has completed, the application has exactly
\* one POD row with is_primary, and it is the POD the user selected as primary
C9_OnePrimaryAsSelected ==
    wizard.step = "complete" =>
        LET rows == BagToSet(PodsOf(wizard.applicationId))
            primary == { r \in rows : r.is_primary }
        IN /\ Cardinality(primary) = 1
           /\ \A r \in primary :
                 /\ r.display_order \in 1..Len(wizard.approvedPods)
                 /\ wizard.approvedPods[r.display_order].id = wizard.primaryPodId

----------------------------------------------------------------------------
(* The helper functions on their own: each action calls one of them with   *)
(* an input drawn from a bounded set and records the call                  *)

MaxSegments == 3   \* Content-Disposition segments in a multipart body

Str_dispositionName ==
    <<"C","o","n","t","e","n","t","-","D","i","s","p","o","s","i","t",
      "i","o","n",":"," ","f","o","r","m","-","d","a","t","a",";"," ",
      "n","a","m","e","=","\"">>
Str_dispositionFilename ==
    <<"\"",";"," ","f","i","l","e","n","a","m","e","=","\"">>
Str_quote == <<"\"">>
Str_multipart ==
    <<"m","u","l","t","i","p","a","r","t","/","f","o","r","m","-","d",
      "a","t","a">>
Str_boundaryParam ==
    <<";"," ","b","o","u","n","d","a","r","y","=">>
Boundary ==
    <<"-","-","-","-","W","e","b","K","i","t","F","o","r","m","B","o",
      "u","n","d","a","r","y","X">>
Str_text_plain ==
    <<"t","e","x","t","/","p","l","a","i","n">>
Str_application_pdf ==
    <<"a","p","p","l","i","c","a","t","i","o","n","/","p","d","f">>
Str_file ==
    <<"f","i","l","e">>
Str_figure ==
    <<"f","i","g","u","r","e">>
Str_filingDate ==
    <<"f","i","l","i","n","g","D","a","t","e">>
Str_isPreFiling ==
    <<"i","s","P","r","e","F","i","l","i","n","g">>

\* one entry of a FormData: a file has a filename and a type, a field has not
Segment(name, filename, mimetype, data) ==
    [name |-> name, filename |-> filename, mimetype |-> mimetype, data |-> data]

IsFileSegment(g) == g.filename # <<>>
IsFieldSegment(g) == g.filename = <<>>

\* the multipart/form-data encoding fetch sends for a FormData body
renderSegment(boundary, g) ==
    Str_dashes \o boundary \o Str_CRLF
      \o Str_dispositionName \o g.name
      \o (IF IsFileSegment(g)
          THEN Str_dispositionFilename \o g.filename \o Str_quote \o Str_CRLF
                 \o Str_ContentTypeColon \o g.mimetype \o Str_CRLF
          ELSE Str_quote \o Str_CRLF)
      \o Str_CRLF \o g.data \o Str_CRLF

RECURSIVE multipartBody(_, _)
multipartBody(boundary, segments) ==
    IF segments = <<>> THEN Str_dashes \o boundary \o Str_dashes \o Str_CRLF
    ELSE renderSegment(boundary, Head(segments)) \o multipartBody(boundary, Tail(segments))

Segments ==
    { Segment(Str_file, <<"a", ".", "t", "x", "t">>, Str_text_plain, <<"A">>),
      Segment(Str_file, <<"b", ".", "p", "d", "f">>, Str_application_pdf, <<"B">>),
      Segment(Str_figure, <<"c", ".", "p", "d", "f">>, Str_application_pdf, <<"C">>),
      Segment(Str_filingDate, <<>>, <<>>,
              <<"2", "0", "2", "5", "-", "0", "1", "-", "1", "5">>),
      Segment(Str_isPreFiling, <<>>, <<>>, <<"f", "a", "l", "s", "e">>) }

SegmentLists == UNION { [1..n -> Segments] : n \in 0..MaxSegments }

\* the content-type header fetch adds for a FormData, the same header
\* without its boundary parameter, and no header at all
ContentType_boundary == [t |-> "string", v |-> Str_multipart \o Str_boundaryParam \o Boundary]
ContentType_noBoundary == [t |-> "string", v |-> Str_multipart]
ContentTypes == {ContentType_boundary, ContentType_noBoundary, Undefined}

\* one call is made, from the initial state
Called(c) ==
    /\ call = NoCall
    /\ call' = c
    /\ UNCHANGED <<durable, claudeCalls, classified, save, lastResp, wizard, savesStarted,
                   listing, removal>>

ParseBody ==
    \E contentType \in ContentTypes, segments \in SegmentLists :
        Called([fn |-> "parseFormData", contentType |-> contentType,
                segments |-> segments,
                result |-> parseFormData(contentType,
                                         multipartBody(Boundary, segments))])

\* the service's answers that are valid JSON
StructuredResults ==
    {Result_good, Result_noPods, Result_noPrimary}
        \cup {Result_secondaries(n) : n \in 0..MaxSecondaries}

\* the ways the service wraps its answer: [before, after]
Fencings ==
    { <<s1 \o open \o s2, s3 \o <<Fence>> \o s4>> :
          s1 \in {<<>>, <<Space>>}, open \in {<<Fence>>, <<Fence, JsonWord>>},
          s2 \in {<<>>, <<Space>>}, s3 \in {<<>>, <<Space>>}, s4 \in {<<>>, <<Space>>} }

Sanitize ==
    \E R \in StructuredResults, f \in Fencings :
        Called([fn |-> "classifyResponse", R |-> R,
                wrapped |-> f[1] \o <<JsonObject(R)>> \o f[2],
                plain |-> classifyResponse(Claude("ok", <<JsonObject(R)>>)),
                fenced |-> classifyResponse(
                               Claude("ok", f[1] \o <<JsonObject(R)>> \o f[2]))])

\* the filing dates: every day of four years, a leap year among them
FilingYears == {2022, 2023, 2024, 2025}
FilingDates ==
    { <<y, m, d>> : y \in FilingYears, m \in 1..12, d \in 1..31 }
        \ { <<y, m, d>> \in FilingYears \X (1..12) \X (1..31) : d > daysInMonth(y, m) }

Deadline ==
    \E filingDate \in FilingDates :
        Called([fn |-> "calculatePublicationDeadline", filingDate |-> filingDate,
                result |-> calculatePublicationDeadline(filingDate)])

\* file names: a stem and an extension (or none)
Stems ==
    { <<"m","y","_","i","n","v","e","n","t","i","o","n">>, <<"w","i","d","g","e","t","-","c","o","u","p","l","e","r">>, <<"n","o","t","e","s",".","t","x","t">>, <<"r","e","p","o","r","t",".","p","d","f">>,
      <<"S","M","A","R","T"," ","L","O","C","K">>, <<"a","b">>, <<"s","p","e","c">>, <<"p","a","t","e","n","t","_","d","r","a","f","t">>,
      Rep("a", MaxTitleLength + 5) }
Extensions == { Str_pdf, Str_txt, <<".","P","D","F">>, <<".","p","n","g">>, <<>> }
Filenames == { stem \o ext : stem \in Stems, ext \in Extensions }

DeriveTitle ==
    \E filename \in Filenames, text \in {TextGood, TextOfLength(MinTextLength)} :
        Called([fn |-> "generateTitle", filename |-> filename, text |-> text,
                title |-> generateTitle(filename, text),
                again |-> generateTitle(generateTitle(filename, text), text)])

\* answers with a fence at both ends, at one end only, or at neither
Wrappings ==
    { <<s1 \o open \o s2, s3 \o close \o s4>> :
          s1 \in {<<>>, <<Space>>}, open \in {<<>>, <<Fence>>, <<Fence, JsonWord>>},
          s2 \in {<<>>, <<Space>>}, s3 \in {<<>>, <<Space>>},
          close \in {<<>>, <<Fence>>}, s4 \in {<<>>, <<Space>>} }

StripFence ==
    \E R \in {Result_good, Result_noPods}, w \in Wrappings :
        Called([fn |-> "stripMarkdownCodeBlocks",
                text |-> w[1] \o <<JsonObject(R)>> \o w[2],
                cleaned |-> stripMarkdownCodeBlocks(w[1] \o <<JsonObject(R)>> \o w[2])])

FunctionsNext ==
    \/ ParseBody
    \/ Sanitize
    \/ Deadline
    \/ DeriveTitle
    \/ StripFence

FunctionsSpec == Init /\ [][FunctionsNext]_vars

\* the parts a parser that keeps every segment returns for the segments:
\* the files, and the fields, each in the order of the body
fileParts(segments) ==
    LET fs == SelectSeq(segments, IsFileSegment)
    IN [i \in 1..Len(fs) |->
          [key |-> fs[i].name,
           value |-> [filename |-> fs[i].filename, buffer |-> fs[i].data,
                      mimetype |-> fs[i].mimetype]]]

fieldParts(segments) ==
    LET gs == SelectSeq(segments, IsFieldSegment)
    IN [i \in 1..Len(gs) |-> [key |-> gs[i].name, value |-> gs[i].data]]

\* C11: for every well-formed multipart body, parsed with the boundary of
\* its content-type header, the parser returns one part per
\* Content-Disposition segment, in the order of the body, a file part for a
\* segment with a filename and a field otherwise; k file segments of the
\* same field name give k file parts
C11_OnePartPerSegment ==
    (call.fn = "parseFormData" /\ call.contentType = ContentType_boundary)
        => /\ call.result.ok
           /\ call.result.files = fileParts(call.segments)
           /\ call.result.formData = fieldParts(call.segments)

----------------------------------------------------------------------------
(* Uploads of several files *)

\* the file gives no text: its type is not supported, its extraction fails,
\* or it has no text layer
Unreadable(file) == ~ extractText(file).ok \/ extractText(file).text = <<>>

\* the file is a text file of sufficient length
ValidTextFile(file) ==
    /\ file.mimetype = "text/plain"
    /\ extractText(file).ok
    /\ ~ TooShort(extractText(file).text)

\* the request carries a file that gives no text together with a valid text file
MixedUpload(req) ==
    /\ req.method = "POST" /\ ~ req.putFails /\ ~ req.insertFails
    /\ \E i, j \in DOMAIN req.parts :
          Unreadable(req.parts[i]) /\ ValidTextFile(req.parts[j])

\* the files an applications row refers to
fileReferences(row) == {row.file_name}

\* C12: an upload of a file that gives no text (unsupported type, failed
\* extraction, no text layer) together with a valid text file succeeds; the
\* stored text is the text file's content, and every file of the request,
\* the failing one included, is among the file references of the new row
C12_BadFileAbsorbed ==
    [][\A k \in IntakeUploads :
          (upload_provisional(UploadRequests[k], Validated[k])
               /\ MixedUpload(UploadRequests[k]))
          => /\ lastResp'.status = 200
             /\ lastResp'.id \in DOMAIN applications'
             /\ \E j \in DOMAIN UploadRequests[k].parts :
                   /\ ValidTextFile(UploadRequests[k].parts[j])
                   /\ applications'[lastResp'.id].specification_text
                          = UploadRequests[k].parts[j].content
             /\ \A i \in DOMAIN UploadRequests[k].parts :
                   UploadRequests[k].parts[i].filename
                       \in fileReferences(applications'[lastResp'.id])]_vars

----------------------------------------------------------------------------
(* The answers of classify-provisional *)

\* the confidences of a prediction list, in hundredths
confidences(predictions) ==
    [i \in 1..Len(predictions) |-> predictions[i].confidence]

\* C13: in every successful classification answer the prediction list is
\* the primary code with confidence 0.92 followed by at most 4 secondary
\* codes with confidences 0.87, 0.81, 0.75, 0.69 in this order; the
\* confidences are strictly decreasing and lie in (0, 1]
C13_ConfidenceLadder ==
    (lastResp.op = "classify" /\ lastResp.status = 200)
        => LET c == confidences(lastResp.cpcPredictions)
           IN /\ Len(c) \in 1..5
              /\ lastResp.cpcPredictions[1].code = lastResp.primaryCpc
              /\ c = SubSeq(<<92, 87, 81, 75, 69>>, 1, Len(c))
              /\ \A i \in 2..Len(c) : c[i] = c[i - 1] - (IF i = 2 THEN 5 ELSE 6)
              /\ \A i, j \in 1..Len(c) : i < j => c[i] > c[j]
              /\ \A i \in 1..Len(c) : 0 < c[i] /\ c[i] <= 100

\* a successful answer whose list has reached the cap of 4 secondary codes
C13_Witness ==
    /\ lastResp.op = "classify" /\ lastResp.status = 200
    /\ Len(lastResp.cpcPredictions) = 5
    /\ lastResp.cpcPredictions[5].confidence = 69

\* the parsed value of the service's answer is a result with a non-empty
\* list of PODs and a non-empty primary classification
WellFormedAnswer(claude) ==
    /\ claude.kind = "ok"
    /\ JSONparse(stripMarkdownCodeBlocks(claude.text)).ok
    /\ JSONparse(stripMarkdownCodeBlocks(claude.text)).value.pods.t = "array"
    /\ JSONparse(stripMarkdownCodeBlocks(claude.text)).value.pods.v # <<>>
    /\ JSONparse(stripMarkdownCodeBlocks(claude.text)).value.primary_cpc_prediction # ""

\* C14: a classification request is answered with success only if the
\* sanitized answer of the service is well-formed and has a non-empty list
\* of PODs and a non-empty primary classification, which is the primary
\* classification of the answer: no default is substituted
C14_NoDefaultPrimary ==
    [][\A req \in IntakeClassifyRequests, claude \in IntakeClaudeOutcomes :
          ((classify_provisional(req, claude) \/ classify_template2(req, claude))
               /\ lastResp'.status = 200)
          => /\ WellFormedAnswer(claude)
             /\ lastResp'.primaryCpc =
                    JSONparse(stripMarkdownCodeBlocks(claude.text)).value.primary_cpc_prediction]_vars

\* C19: when the content-type header carries no boundary, parsing fails at
\* once with an error and returns no parts: no field and no file is taken
\* from the body (so the upload has no file to store)
C19_NoBoundaryNoParts ==
    (/\ call.fn = "parseFormData"
     /\ \/ call.contentType.t = "undefined"
        \/ ~ includes(call.contentType.v, Str_boundaryEq))
        => /\ ~ call.result.ok
           /\ call.result.files = <<>>
           /\ call.result.formData = <<>>

\* C15: for every answer R of the service that is valid JSON, the handler's
\* answer to R between a leading and a trailing code fence is its answer to
\* R alone: the same PODs, classifications, confidences and title
C15_FenceIgnored ==
    call.fn = "classifyResponse" => call.fenced = call.plain

\* a fenced answer, opened by ```json, that is classified successfully
C15_Witness ==
    /\ call.fn = "classifyResponse"
    /\ startsWith(call.wrapped, <<Fence, JsonWord>>)
    /\ endsWith(call.wrapped, <<Fence>>)
    /\ call.fenced.status = 200
    /\ call.fenced.pods = call.R.pods.v

\* C16: for every filing date (y, m, d) the publication deadline is the
\* date 18 calendar months later with the same day of the month d, also
\* when the month 18 months later is shorter than d days
C16_SameDayEighteenMonthsLater ==
    call.fn = "calculatePublicationDeadline"
        => LET y == call.filingDate[1]
               m == call.filingDate[2]
               d == call.filingDate[3]
           IN call.result = IF m <= 6 THEN <<y + 1, m + 6, d>>
                            ELSE <<y + 2, m - 6, d>>


\* the request passes the handler's validation and the API key is set, so
\* callClaudeAPI reaches its fetch
ReachesService(req, claude) ==
    /\ req.method = "POST"
    /\ req.specText # <<>> /\ req.title # <<>>
    /\ claude.kind # "nokey"

\* uploads, and classify requests to either variant of the handler
ServiceRequests ==
    { ClassifyRequest("POST", TextGood, Title_A, id) : id \in 1..MaxApps }
    \cup { ClassifyRequest("POST", <<>>, Title_A, 1),
           ClassifyRequest("POST", TextGood, <<>>, 1),
           ClassifyRequest("GET", TextGood, Title_A, 1) }

ClassifyProduction == ClassifyFrom(ServiceRequests, IntakeClaudeOutcomes)
ClassifyVariant ==
    \E req \in ServiceRequests, claude \in IntakeClaudeOutcomes :
        classify_template2(req, claude) /\ UNCHANGED <<wizard, savesStarted, call, listing, removal>>

ServiceNext ==
    \/ Upload
    \/ ClassifyProduction
    \/ ClassifyVariant

ServiceSpec == Init /\ [][ServiceNext]_vars

\* C20 as stated: every classify request calls the classification service
\* exactly once
C20_ExactlyOneCall ==
    [][\A req \in ServiceRequests, claude \in IntakeClaudeOutcomes :
          (classify_provisional(req, claude) \/ classify_template2(req, claude))
          => claudeCalls' = claudeCalls + 1]_vars

\* C20: a classify request calls the classification service exactly once if
\* it passes validation and the API key is configured, and not at all
\* otherwise; a failed call is not repeated and no request makes two calls
C20_OneCallNoRetry ==
    [][\A req \in ServiceRequests, claude \in IntakeClaudeOutcomes :
          (classify_provisional(req, claude) \/ classify_template2(req, claude))
          => claudeCalls' = IF ReachesService(req, claude) THEN claudeCalls + 1
                            ELSE claudeCalls]_vars

\* the service has been called once, and the call failed or gave no valid
\* result: the request was answered with an error
C20_Witness ==
    /\ claudeCalls = 1
    /\ classified = {}
    /\ lastResp.op = "classify" /\ lastResp.status = 500

----------------------------------------------------------------------------
(* The rows upload-provisional creates *)

\* C17: in every row of applications created by an upload,
\* publication_deadline is NULL if and only if filing_date is NULL, whatever
\* filingDate (given or not) and isPreFiling ('true', 'false' or not given)
\* the request carried
C17_DeadlineNullIffFilingDateNull ==
    \A id \in DOMAIN applications :
        (applications[id].publication_deadline = <<>>)
            <=> (applications[id].filing_date = <<>>)

\* a name of which one of the generic names is a part
isGenericTitle(title) == \E g \in GenericNames : includes(toLowerCase(title), g)

\* C18: title derivation is idempotent on acceptable titles derived from the
\* file name: if the title T derived for a file name is not generic and has
\* at least 5 characters, the title derived for T as the file name, with the
\* same text, is T
C18_TitleIdempotent ==
    (/\ call.fn = "generateTitle"
     /\ ~ isGenericTitle(replaceSeparators(stripExtension(call.filename)))
     /\ Len(replaceSeparators(stripExtension(call.filename))) >= MinTitleLength
     /\ ~ isGenericTitle(call.title)
     /\ Len(call.title) >= MinTitleLength)
        => call.again = call.title

----------------------------------------------------------------------------
(* The writes of one save request *)

\* C22: within one accepted save request the writes come in this order: the
\* DELETE of the application's PODs, the INSERTs of the approved set, and
\* only then the UPDATE of the application row; when the row is updated the
\* PODs have been replaced
C22_PodsReplacedBeforeUpdate ==
    [][\A s \in SaveSlots :
          SaveUpdate(s) =>
              PodsOf(save[s].body.applicationId) = SubmittedRows(save[s].body)]_vars

\* no save request is in progress: every slot is free or holds an answer
NoSaveInProgress == \A s \in SaveSlots : save[s].pc \in {"idle", "done"}

\* C23: whenever no save request is in progress, every application has no
\* PODs or at least 3, also after a request that was aborted by a datastore
\* error between its DELETE and its last INSERT
C23_ZeroOrThreePods ==
    NoSaveInProgress
        => \A id \in DOMAIN applications :
              \/ PodsOf(id) = EmptyBag
              \/ BagCardinality(PodsOf(id)) >= MinApprovedPods

----------------------------------------------------------------------------
(* The frame of a save request: saves that carry a filing date *)

FrameSaveBodies ==
    { [SaveBody("POST", id, Array(Ascending(MinApprovedPods)), TRUE, "B")
          EXCEPT !.filingDate = d[1], !.isPreFiling = d[2]] :
          id \in 1..MaxApps, d \in { <<Date_filed, FALSE>>, <<<<>>, TRUE>> } }

FrameUpload == UploadFrom({1, 2})
FrameSave == SaveFrom(FrameSaveBodies)

FrameNext ==
    \/ FrameUpload
    \/ FrameSave
    \/ Update
    \/ Delete
    \/ Insert
    \/ VerifyApp
    \/ VerifyPods
    \/ Throw
    \/ Return

FrameSpec == Init /\ [][FrameNext]_vars

\* the columns of an application row that a save request may set
Unsaved(row) ==
    [row EXCEPT !.title = <<>>, !.classifier_predictions = Null,
                !.predicted_primary_cpc = NullStr, !.technology_area = NullStr]

\* the application of the request in slot s, before or after its arrival
TargetOf(s) ==
    IF save[s].pc = "idle" THEN save'[s].body.applicationId
    ELSE save[s].body.applicationId

\* C30: a step of a save request changes, of the applications, only the
\* title, the classification predictions, the predicted primary
\* classification and the technology area of the application it names, and
\* of the PODs only those of that application: filing date, publication
\* deadline, specification text, file reference and archived flag of that
\* row, every other application and its PODs, and the blob store are
\* unchanged, whatever filingDate and isPreFiling the request carries
C30_SaveFrame ==
    [][save' # save
          => /\ DOMAIN applications' = DOMAIN applications
             /\ blobStore' = blobStore
             /\ \A id \in DOMAIN applications :
                   /\ Unsaved(applications'[id]) = Unsaved(applications[id])
                   /\ (\A s \in SaveSlots : save'[s] # save[s] => TargetOf(s) # id)
                         => /\ applications'[id] = applications[id]
                            /\ PodsOf(id)' = PodsOf(id)]_vars

\* a request that carried a filing date and isPreFiling false was answered
\* 200 for an application uploaded without filing date: the title is the
\* request's, the row still has no filing date and no deadline
C30_Witness ==
    \E s \in SaveSlots :
        /\ Undisturbed(s)
        /\ save[s].body.filingDate = Date_filed /\ ~ save[s].body.isPreFiling
        /\ save[s].body.applicationId \in DOMAIN applications
        /\ applications[save[s].body.applicationId].title = save[s].body.title
        /\ applications[save[s].body.applicationId].filing_date = <<>>
        /\ applications[save[s].body.applicationId].publication_deadline = <<>>

----------------------------------------------------------------------------
(* Archived applications and later requests *)

\* the title and the classification columns of an application row
Classification(row) ==
    <<row.title, row.classifier_predictions, row.predicted_primary_cpc,
      row.technology_area>>

\* a save request for the first application that arrives when the application
\* is already archived
SaveArchived ==
    /\ 1 \in DOMAIN applications
    /\ applications[1].archived
    /\ SaveFrom(ArchiveSaveBodies)

TerminalNext ==
    \/ Upload
    \/ Archive
    \/ SaveArchived
    \/ Update
    \/ Delete
    \/ Insert
    \/ VerifyApp
    \/ VerifyPods
    \/ Throw
    \/ Return

TerminalSpec == Init /\ [][TerminalNext]_vars

\* C24: once an application is archived, no later upload, save or archive
\* request changes its title, its classification columns or its POD rows,
\* and its archived flag stays true
C24_ArchivedIsTerminal ==
    [][\A id \in DOMAIN applications :
          applications[id].archived
             => /\ id \in DOMAIN applications'
                /\ applications'[id].archived
                /\ Classification(applications'[id]) = Classification(applications[id])
                /\ PodsOf(id)' = PodsOf(id)]_vars

----------------------------------------------------------------------------
(* Answers of the service with a fence at one end only *)

\* C25: the fence markers are removed only when the answer has both a leading
\* and a trailing marker; an answer with only one of them reaches the parser
\* unchanged, apart from the white space around it
C25_FencesOnlyInPairs ==
    call.fn = "stripMarkdownCodeBlocks"
        => LET t == trimTokens(call.text)
           IN ~ (startsWith(t, <<Fence>>) /\ endsWith(t, <<Fence>>))
                 => call.cleaned = t

----------------------------------------------------------------------------
(* Uploads that end in an error *)

\* C29: an upload that ends in an error has written no blob and inserted no
\* application row, and every stored blob is referenced by an application row
C29_FailedUploadLeavesNothing ==
    [][\A k \in IntakeUploads :
          (/\ upload_provisional(UploadRequests[k], Validated[k])
           /\ lastResp'.status # 200)
          => /\ blobStore' = blobStore
             /\ applications' = applications
             /\ \A url \in 1..Len(blobStore') :
                   \E id \in DOMAIN applications' : applications'[id].file_url = url]_vars

----------------------------------------------------------------------------
(* The review step over several passes through the wizard *)

\* an answer of the service in which no POD is marked primary
Result_noPrimaryPod ==
    ClaudeResult(Array([t \in 1..MinApprovedPods |->
                            [ClaudePod(t) EXCEPT !.is_primary = FALSE]]),
                 "G06F 40/169", <<"G06N 3/08">>, Title_A)

ReviewClaudeOutcomes ==
    { Claude("ok", <<JsonObject(WizardResult)>>),
      Claude("ok", <<JsonObject(Result_noPrimaryPod)>>) }

ReviewClassify == handleClassification(ReviewClaudeOutcomes)

ReviewNext ==
    \/ SelectFiles
    \/ ClickUpload
    \/ ReviewClassify
    \/ TogglePod
    \/ SetPrimary
    \/ AddCustomPod
    \/ StartOver
    \/ ClickSave
    \/ Update
    \/ Delete
    \/ Insert
    \/ VerifyApp
    \/ VerifyPods
    \/ SaveAnswered
    \/ UploadAnother

ReviewSpec == Init /\ [][ReviewNext]_vars

\* line 677: the Save button is shown and not disabled
SaveEnabled ==
    /\ wizard.step = "review"
    /\ ~ wizard.isProcessing
    /\ Len(wizard.approvedPods) >= MinApprovedPods
    /\ wizard.primaryPodId # 0

\* C26: whenever the Save button is enabled, primaryPodId is the id of a POD
\* in approvedPods, whatever toggles, Set Primary clicks, Start Over, Upload
\* Another and classifications came before
C26_PrimaryIsApproved ==
    SaveEnabled => isApproved(wizard.primaryPodId)

----------------------------------------------------------------------------
(* The workflow step and the rows of the application *)

\* C21: the workflow state of an application can be read from its application
\* row and its POD rows: when the application of the page passes from being
\* classified to awaiting review, its rows differ from the rows it had as an
\* application that was only uploaded
C21_ReviewVisibleInRows ==
    [][(wizard.step # "review" /\ wizard'.step = "review")
          => LET id == wizard.applicationId
             IN \/ wizard'.applicationId # id
                \/ id \notin DOMAIN applications
                \/ applications'[id] # applications[id]
                \/ PodsOf(id)' # PodsOf(id)]_vars

----------------------------------------------------------------------------
(* get-applications: the list of applications with their POD counts *)

\* SELECT COUNT(*) ... WHERE application_id = id AND is_primary = true
PrimaryPodsOf(id) ==
    LET keep == { r \in BagToSet(pod_definitions) :
                      r.application_id = id /\ r.is_primary }
    IN [r \in keep |-> pod_definitions[r]]

\* lines 47-98: the request arrives and the applications are selected
ListStart(method, showArchived) ==
    /\ listing.pc = "idle"
    /\ UNCHANGED <<durable, claudeCalls, classified, save, lastResp>>
    /\ IF method # "GET"
       THEN listing' = [listing EXCEPT !.pc = "done", !.status = 405]
       ELSE LET ids == { id \in DOMAIN applications :
                             showArchived \/ ~ applications[id].archived }
            IN listing' = [listing EXCEPT
                              !.pc = "count",
                              !.applications = [id \in ids |-> applications[id]]]

\* lines 103-107: the first query of the callback for application id; the
\* callbacks of Promise.all run in any order; counted is history, the rows
\* this query has counted
ListCountPods(id) ==
    /\ listing.pc = "count"
    /\ id \in DOMAIN listing.applications
    /\ id \notin DOMAIN listing.podCount
    /\ UNCHANGED <<durable, claudeCalls, classified, save, lastResp>>
    /\ listing' = [listing EXCEPT
                      !.podCount = @ @@ (id :> BagCardinality(PodsOf(id))),
                      !.counted = @ @@ (id :> PodsOf(id))]

\* lines 109-114: the second query of the callback
ListCountPrimary(id) ==
    /\ listing.pc = "count"
    /\ id \in DOMAIN listing.podCount
    /\ id \notin DOMAIN listing.primaryPodCount
    /\ UNCHANGED <<durable, claudeCalls, classified, save, lastResp>>
    /\ listing' = [listing EXCEPT
                      !.primaryPodCount = @ @@
                          (id :> BagCardinality(PrimaryPodsOf(id)))]

\* lines 136-144: a query rejects
ListThrow ==
    /\ listing.pc = "count"
    /\ UNCHANGED <<durable, claudeCalls, classified, save, lastResp>>
    /\ listing' = [listing EXCEPT !.pc = "done", !.status = 500]

\* lines 116-134: every callback has returned; the response is one entry per
\* application with podCount, primaryPodCount and isPreFiling
\* (daysUntilPublication depends on the clock and is left out)
ListReturn ==
    /\ listing.pc = "count"
    /\ DOMAIN listing.primaryPodCount = DOMAIN listing.applications
    /\ UNCHANGED <<durable, claudeCalls, classified, save>>
    /\ listing' = [listing EXCEPT !.pc = "done", !.status = 200]
    /\ lastResp' =
          [op |-> "list", status |-> 200,
           applications |->
               [id \in DOMAIN listing.applications |->
                   [id |-> id,
                    title |-> listing.applications[id].title,
                    podCount |-> listing.podCount[id],
                    primaryPodCount |-> listing.primaryPodCount[id],
                    isPreFiling |-> listing.applications[id].is_provisional
                                    /\ listing.applications[id].filing_date = <<>>]]]

List ==
    \E method \in {"GET", "POST"}, showArchived \in BOOLEAN :
        ListStart(method, showArchived) /\ UNCHANGED <<wizard, savesStarted, call, removal>>
CountPods ==
    \E id \in 1..MaxApps :
        ListCountPods(id) /\ UNCHANGED <<wizard, savesStarted, call, removal>>
CountPrimary ==
    \E id \in 1..MaxApps :
        ListCountPrimary(id) /\ UNCHANGED <<wizard, savesStarted, call, removal>>
ListFails == ListThrow /\ UNCHANGED <<wizard, savesStarted, call, removal>>
ListAnswered == ListReturn /\ UNCHANGED <<wizard, savesStarted, call, removal>>

\* one save request for the first application runs beside the listing
ListSave == savesStarted = 0 /\ SaveFrom(ArchiveSaveBodies)

ListNext ==
    \/ Upload
    \/ ListSave
    \/ Update
    \/ Delete
    \/ Insert
    \/ VerifyApp
    \/ VerifyPods
    \/ Return
    \/ List
    \/ CountPods
    \/ CountPrimary
    \/ ListFails
    \/ ListAnswered

ListSpec == Init /\ [][ListNext]_vars

\* C27: in every response of get-applications, primaryPodCount is at most
\* podCount for each application, and primaryPodCount is the number of
\* primary rows among the very rows that podCount counted, also when a save
\* request for the application runs at the same time
C27_CountsOfOneSnapshot ==
    (listing.pc = "done" /\ listing.status = 200)
        => \A id \in DOMAIN listing.applications :
              /\ listing.primaryPodCount[id] <= listing.podCount[id]
              /\ listing.primaryPodCount[id]
                    = Cardinality({ r \in BagToSet(listing.counted[id]) : r.is_primary })

----------------------------------------------------------------------------
(* admin-delete-application: the hard delete *)

AdminDeleteRequest(method, id, adminKey) ==
    [method |-> method, applicationId |-> id, adminKey |-> adminKey]

\* line 24, with ADMIN_DELETE_KEY unset
validAdminKey == "trogon-admin-2025"

AdminDeleteRequests ==
    { AdminDeleteRequest("DELETE", id, validAdminKey) : id \in 0..MaxApps }
    \cup { AdminDeleteRequest("DELETE", 1, "guess"),
           AdminDeleteRequest("POST", 1, validAdminKey) }

\* DELETE FROM applications WHERE id = id
ApplicationsWithout(id) ==
    [i \in DOMAIN applications \ {id} |-> applications[i]]

\* lines 12-47: the request arrives, is authenticated, and the application
\* is looked up
RemovalStart(req) ==
    /\ removal.pc = "idle"
    /\ UNCHANGED <<durable, claudeCalls, classified, save, lastResp>>
    /\ LET answer(status) ==
               [pc |-> "done", applicationId |-> req.applicationId, status |-> status]
       IN IF req.method # "DELETE" THEN removal' = answer(405)
          ELSE IF req.adminKey # validAdminKey THEN removal' = answer(403)
          ELSE IF req.applicationId = 0 THEN removal' = answer(400)
          ELSE IF req.applicationId \notin DOMAIN applications
          THEN removal' = answer(404)
          ELSE removal' = [pc |-> "deletePods", applicationId |-> req.applicationId,
                           status |-> 0]

\* lines 50-53: DELETE FROM pod_definitions
RemovalDeletePods ==
    /\ removal.pc = "deletePods"
    /\ UNCHANGED <<applications, blobStore, nextAppId, claudeCalls, classified, lastResp>>
    /\ pod_definitions' = PodsWithout(removal.applicationId)
    /\ save' = Disturbing("admin", removal.applicationId, save)
    /\ removal' = [removal EXCEPT !.pc = "deleteApplication"]

RemovalDeleteApplication_unchecked ==
    /\ removal.pc = "deleteApplication"
    /\ UNCHANGED <<blobStore, nextAppId, claudeCalls, classified, lastResp>>
    /\ applications' = ApplicationsWithout(removal.applicationId)
    /\ UNCHANGED <<pod_definitions, save>>
    /\ removal' = [removal EXCEPT !.pc = "done", !.status = 200]

\* lines 55-67: DELETE FROM applications.  pod_definitions.application_id is
\* a foreign key (line 49); the schema is not part of the repository, so when
\* a POD row references the application the statement either rejects (the
\* catch block answers 500) or cascades to the POD rows
RemovalDeleteApplication ==
    /\ removal.pc = "deleteApplication"
    /\ UNCHANGED <<blobStore, nextAppId, claudeCalls, classified, lastResp>>
    /\ \/ /\ PodsOf(removal.applicationId) # EmptyBag
          /\ UNCHANGED <<applications, pod_definitions, save>>
          /\ removal' = [removal EXCEPT !.pc = "done", !.status = 500]
       \/ /\ applications' = ApplicationsWithout(removal.applicationId)
          /\ pod_definitions' = PodsWithout(removal.applicationId)
          /\ save' = IF PodsOf(removal.applicationId) # EmptyBag
                     THEN Disturbing("admin", removal.applicationId, save)
                     ELSE save
          /\ removal' = [removal EXCEPT !.pc = "done", !.status = 200]

\* lines 69-76: a statement rejects
RemovalThrow ==
    /\ removal.pc \in {"deletePods", "deleteApplication"}
    /\ UNCHANGED <<durable, claudeCalls, classified, save, lastResp>>
    /\ removal' = [removal EXCEPT !.pc = "done", !.status = 500]

Remove ==
    \E req \in AdminDeleteRequests :
        RemovalStart(req) /\ UNCHANGED <<wizard, savesStarted, call, listing>>
RemovePods == RemovalDeletePods /\ UNCHANGED <<wizard, savesStarted, call, listing>>
RemoveApplication ==
    RemovalDeleteApplication /\ UNCHANGED <<wizard, savesStarted, call, listing>>
RemoveFails == RemovalThrow /\ UNCHANGED <<wizard, savesStarted, call, listing>>

RemovalNext ==
    \/ Upload
    \/ SaveFirst
    \/ Update
    \/ Delete
    \/ Insert
    \/ VerifyApp
    \/ VerifyPods
    \/ Throw
    \/ Return
    \/ Remove
    \/ RemovePods
    \/ RemoveApplication
    \/ RemoveFails

RemovalSpec == Init /\ [][RemovalNext]_vars

====
